---- MODULE Spec2Model ----
(***************************************************************************)
(* A model of the message capture, normalisation and persistence pipeline  *)
(* of the Telegram listener:                                               *)
(*   - TelegramMessageHandler.save_message and the per-kind content        *)
(*     handlers (listener/database)             specification SpecDB       *)
(*   - MessageStorage (listener/messager/storage.py)                       *)
(*                                              specification SpecStorage  *)
(*   - TelegramMonitor and MessageLoader (listener/messager)               *)
(*                                              specification SpecMonitor  *)
(*   - CommentTracker (listener/messager/comment.py)                       *)
(*                                              specification SpecTracker  *)
(*   - the two background loops side by side   specification SpecLoops    *)
(*   - TelegramService (telegram/connect.py)    specification SpecService  *)
(* The program runs on one asyncio event loop: a coroutine runs without    *)
(* interruption from one await that suspends to the next, so every action  *)
(* below is the code between two suspension points.                        *)
(***************************************************************************)
EXTENDS Integers, Sequences, FiniteSets, TLC

VARIABLES
    \* ---- the relational store and the history of save_message calls
    db,          \* [chats, users, messages, contents]
    saveLog,     \* one record per save_message call, in call order
    loadLog,     \* one record per load_message call, in call order
    \* ---- MessageStorage
    queue,       \* _queue: the buffered events, oldest first (event ids)
    events,      \* events[i]: the grouped_id of the i-th event handed to add_message (0: None)
    ev,          \* _new_message_event is set
    lock,        \* the task holding _lock (0: unlocked)
    lockQ,       \* the tasks suspended in _lock.acquire(), first come first
    waiters,     \* _waiters
    wpc,         \* where each wait_for_message caller stands
    wfinite,     \* whether the call was given a timeout (None: wait for ever)
    wgt,         \* whether the call's group_timeout is above 0
    wgroup,      \* `group` of _process_media_group
    wresult,     \* what the caller's last wait_for_message returned
    returned,    \* history: the events wait_for_message has returned, in order
    sawEmpty,    \* history: the buffer was empty at some moment of the call
    dropLog,     \* history: the events the full deque dropped
    \* ---- TelegramMonitor and MessageLoader
    monRunning,  \* TelegramMonitor._is_running
    handlerRegs, \* how many times _handle_new_message is registered with the client
    delivered,   \* the events the client has delivered, in arrival order
    converting,  \* the _handle_new_message tasks suspended in converter.convert
    pqueue,      \* MessageLoader._processed_queue
    enqLog,      \* history: the events put on _processed_queue, in order
    wt,          \* where each db_writer task stands
    wm,          \* `message` of each db_writer task (0: none)
    wcancel,     \* the task has been cancelled and not yet resumed
    curTask,     \* TelegramMonitor._tasks (the last db_writer created; 0: none)
    stopAwait,   \* the tasks a stop_monitor call is awaiting
    \* ---- CommentTracker
    trActive,    \* _is_active
    starting,    \* a start_tracking call is suspended in load_channels
    trChannels,  \* _tracked_channels
    trOrder,     \* the keys of _tracked_messages, in insertion order
    trPosts,     \* _tracked_messages[channel]: <<[post, time]>> in insertion order
    processed,   \* _processed_comments: <<channel, post>> -> the set of seen reply ids
    cache,       \* _new_comments_cache: <<[ch, post, replies]>>, entries in insertion order
    totalCached, \* _total_cached
    lockHolder,  \* who holds _cache_lock: "none", "poll" or "drain"
    lockWaiter,  \* who waits for _cache_lock
    pollTask,    \* the _tracking_loop task: where it is suspended, and its locals
    drainer,     \* the consumer's get_comments generator: where it is suspended
    now,         \* the clock, in hours
    replies,     \* the collaborator: reply id -> the <<channel, post>> it answers
    yieldLog,    \* history: the replies get_comments yielded, with the number of the drain
    appendLog,   \* history: the replies appended to the cache, with the high-water mark then
    purgedKeys,  \* history: the posts the current poll cycle purged (and nobody tracked again)
    lastPurge,   \* history: the last completed purge step (purged: how many posts it removed;
                 \* drift: tracked_messages_count after it, less the count before it and the
                 \* posts tracked meanwhile, plus purged; stale: a post older than the window is left)
    capHit,      \* history: a poll cycle found a reply while the cache was at its cap
    maxCached,   \* max_cached, as given to the constructor
    \* ---- CommentTracker: start_tracking and stop_tracking under concurrent callers
    lcFile,      \* the channels file exists and names a channel
    lcActive,    \* _is_active
    lcTaskRef,   \* _background_task (0: None)
    lcLoops,     \* where each _tracking_loop task stands
    lcCancel,    \* the task has been cancelled and not yet resumed
    lcCalls,     \* where each caller of start_tracking / stop_tracking stands
    lcTarget,    \* the task each stop_tracking call awaits
    quiet,       \* history: a stop_tracking called while active has returned,
                 \* start_tracking has not been called since it was called, and
                 \* no start_tracking call was in progress or set _is_active
    ranQuiet,    \* history: a poll cycle ran a step while quiet
    \* ---- DatabaseCreator.initialize_database
    creation_order,   \* the table list, by name
    dbTables,         \* the tables the database has
    created_tables,
    remaining_tables,
    made_progress,
    bidx,             \* the place of the for loop in creation_order
    bpc,              \* where initialize_database stands
    outcome,          \* what the caller observes
    reported,         \* the tables named by the error of line 50
    createLog,        \* history: each CREATE issued, with the tables the database had
    \* ---- MessageConverter and the way of a converted message to save_message
    cvLog,       \* history: one record per process_message call, in call order
    cvQueue,     \* MessageLoader._processed_queue: the converted messages
    \* ---- CommentTracker.track_message, every call
    trackLog,    \* history: the last track_message call and what it returned
    \* ---- the background loops (_tracking_loop, _database_writer_task)
    excLog,      \* history: the exceptions the loops' `except Exception` caught
    \* ---- TelegramService (telegram/connect.py)
    svClient,    \* self.client: "none", or a client that is "off" or "on" (connected)
    svRunning,   \* self._is_running
    svLock,      \* self._lock: the caller that holds it, 0 when free
    svLockQ,     \* the callers suspended in self._lock.acquire(), oldest first
    svOp,        \* the method each caller called last
    svPc,        \* where each caller is in its call
    svRet        \* what each caller's last call returned

dbVars == <<db, saveLog, loadLog>>

monVars == <<monRunning, handlerRegs, delivered, converting, pqueue, enqLog, wt, wm, wcancel, curTask, stopAwait>>


stVars == <<queue, events, ev, lock, lockQ, waiters, wpc, wfinite, wgt, wgroup, wresult, returned, sawEmpty, dropLog>>

trVars == <<trActive, starting, trChannels, trOrder, trPosts, processed, cache, totalCached, lockHolder,
           lockWaiter, pollTask, drainer, now, replies, yieldLog, appendLog, purgedKeys, lastPurge, capHit,
           maxCached>>

lcVars == <<lcFile, lcActive, lcTaskRef, lcLoops, lcCancel, lcCalls, lcTarget, quiet, ranQuiet>>

cvVars == <<cvLog, cvQueue>>

tkVars == <<trackLog>>

exVars == <<excLog>>

svVars == <<svClient, svRunning, svLock, svLockQ, svOp, svPc, svRet>>

bootVars == <<creation_order, dbTables, created_tables, remaining_tables, made_progress, bidx, bpc,
              outcome, reported, createLog>>

\* What the actions of each part leave alone: the variables of the other parts.
outsideStore == <<stVars, monVars, trVars, lcVars, bootVars, cvVars, tkVars, exVars, svVars>>

outsideStorage == <<dbVars, monVars, trVars, lcVars, bootVars, cvVars, tkVars, exVars, svVars>>

outsideMonitor == <<stVars, trVars, lcVars, bootVars, cvVars, tkVars, exVars, svVars>>

outsideTracker == <<dbVars, stVars, monVars, lcVars, bootVars, cvVars, tkVars, exVars, svVars>>

outsideLifecycle == <<dbVars, stVars, monVars, trVars, bootVars, cvVars, tkVars, exVars, svVars>>

outsideBootstrap == <<dbVars, stVars, monVars, trVars, lcVars, cvVars, tkVars, exVars, svVars>>

outsideConvert == <<stVars, monVars, trVars, lcVars, bootVars, tkVars, exVars, svVars>>

outsideTrackCalls == <<dbVars, stVars, monVars, lcVars, bootVars, cvVars, exVars, svVars>>

\* The same for the steps of SpecLoops that note a caught exception.
outsideTrackingLoop == <<dbVars, stVars, monVars, lcVars, bootVars, cvVars, tkVars, svVars>>

outsideWriterTask == <<stVars, trVars, lcVars, bootVars, cvVars, tkVars, svVars>>

outsideService == <<dbVars, stVars, monVars, trVars, lcVars, bootVars, cvVars, tkVars, exVars>>

vars == <<db, saveLog, loadLog, queue, events, ev, lock, lockQ, waiters, wpc, wfinite, wgt, wgroup, wresult, returned, sawEmpty, dropLog,
          monRunning, handlerRegs, delivered, converting, pqueue, enqLog, wt, wm, wcancel, curTask, stopAwait,
          trActive, starting, trChannels, trOrder, trPosts, processed, cache, totalCached, lockHolder,
          lockWaiter, pollTask, drainer, now, replies, yieldLog, appendLog, purgedKeys, lastPurge, capHit,
          maxCached, lcFile, lcActive, lcTaskRef, lcLoops, lcCancel, lcCalls, lcTarget, quiet, ranQuiet,
          creation_order, dbTables, created_tables, remaining_tables, made_progress, bidx, bpc,
          outcome, reported, createLog, cvLog, cvQueue, trackLog, excLog,
          svClient, svRunning, svLock, svLockQ, svOp, svPc, svRet>>

(***************************************************************************)
(*                      PART 1: the persistence engine                     *)
(***************************************************************************)

\* None of Python / NULL of SQL, for text-valued and for integer-valued fields.
NULL == "NULL"

NULLI == -1

\* How many save_message calls one behaviour makes.
MaxSaves == 2

RangeOf(s) == {s[i] : i \in DOMAIN s}

\* COALESCE(EXCLUDED.x, t.x)
Coalesce(new, old, null) == IF new # null THEN new ELSE old

\* ---- content items (schema.TextMessage, PhotoMessage, VideoMessage, AudioMessage)
TextItem(t) == [kind |-> "text", text |-> t, file_id |-> NULL, caption |-> NULL]

\* photo |-> FALSE models an empty `photo` list or a best size without file_id.
PhotoItem(f, cap) == [kind |-> "photo", text |-> NULL, file_id |-> f, caption |-> cap]

VideoItem(f, cap) == [kind |-> "video", text |-> NULL, file_id |-> f, caption |-> cap]

AudioItem(f) == [kind |-> "audio", text |-> NULL, file_id |-> f, caption |-> NULL]

\* ---- the normalised message (schema.base.Message), with the fields the
\* ---- upserts distinguish: keys, coalesced columns and write-once columns.
Msg(mid, uid, fname, title, text, views, date, contents) ==
    [message_id |-> mid, chat_id |-> 1, user_id |-> uid, first_name |-> fname,
     title |-> title, text |-> text, views |-> views, date |-> date,
     edit_date |-> NULLI, forwards |-> NULLI, contents |-> contents]

ContentVariants ==
    { <<TextItem("hello")>>,
      <<PhotoItem("p1", "cap")>>,
      <<VideoItem("v1", NULL)>>,
      <<AudioItem("a1")>>,
      <<TextItem("hello"), PhotoItem("p1", NULL)>>,
      <<TextItem("hello"), VideoItem("v1", NULL)>> }

\* The messages save_message is called with: each content variant in two
\* versions of its metadata (the second with absent values and new values),
\* a message of a second key, and the first message after an edit of its text.
Msgs ==
    { Msg(1, 5, "Ann", "Chan", "hello", NULLI, 10, c) : c \in ContentVariants }
    \cup { [Msg(1, NULLI, NULL, NULL, NULL, 3, 11, c) EXCEPT !.edit_date = 12, !.forwards = 2] :
             c \in ContentVariants }
    \cup { Msg(2, 5, "Bob", "Chan2", "other", 1, 12, <<TextItem("other")>>) }
    \cup { Msg(1, 5, "Ann", "Chan", "bye", NULLI, 13, <<TextItem("bye")>>) }

Key(m) == <<m.message_id, m.chat_id>>

EmptyDB == [chats |-> <<>>, users |-> <<>>, messages |-> <<>>, contents |-> <<>>]

\* ---- PostgreSQLConnector.execute_query: `failed` is the query raising
\* ---- (connection lost, constraint violated); the store is then unchanged
\* ---- and the caller sees (False, None).
execute_query(d, d2, failed) == IF failed THEN [db |-> d, ok |-> FALSE] ELSE [db |-> d2, ok |-> TRUE]

Upsert(t, k, new, merged) == IF k \in DOMAIN t THEN [t EXCEPT ![k] = merged] ELSE (k :> new) @@ t

\* INSERT INTO chats ... ON CONFLICT (chat_id) DO UPDATE SET title = COALESCE(...)
_ensure_chat_exists(d, m, failed) ==
    LET k == m.chat_id
        new == [title |-> m.title]
        merged == IF k \in DOMAIN d.chats
                  THEN [title |-> Coalesce(m.title, d.chats[k].title, NULL)]
                  ELSE new
    IN execute_query(d, [d EXCEPT !.chats = Upsert(d.chats, k, new, merged)], failed)

\* INSERT INTO users ... ON CONFLICT (user_id) DO UPDATE SET first_name = COALESCE(...)
_ensure_user_exists(d, m, failed) ==
    LET k == m.user_id
        new == [first_name |-> m.first_name]
        merged == IF k \in DOMAIN d.users
                  THEN [first_name |-> Coalesce(m.first_name, d.users[k].first_name, NULL)]
                  ELSE new
    IN execute_query(d, [d EXCEPT !.users = Upsert(d.users, k, new, merged)], failed)

\* INSERT INTO messages ... ON CONFLICT (message_id, chat_id) DO UPDATE SET
\* text, edit_date, views, forwards = COALESCE(EXCLUDED.x, messages.x)
\* A metadata upsert that overwrites the row.
SaveMetadataOverwrite(d, m, failed) ==
    LET k == Key(m)
        new == [user_id |-> m.user_id, text |-> m.text, views |-> m.views, date |-> m.date,
                edit_date |-> m.edit_date, forwards |-> m.forwards]
    IN execute_query(d, [d EXCEPT !.messages = Upsert(d.messages, k, new, new)], failed)

_save_message_metadata(d, m, failed) ==
    LET k == Key(m)
        new == [user_id |-> m.user_id, text |-> m.text, views |-> m.views, date |-> m.date,
                edit_date |-> m.edit_date, forwards |-> m.forwards]
        merged == IF k \in DOMAIN d.messages
                  THEN [d.messages[k] EXCEPT !.text = Coalesce(m.text, @, NULL),
                                             !.edit_date = Coalesce(m.edit_date, @, NULLI),
                                             !.views = Coalesce(m.views, @, NULLI),
                                             !.forwards = Coalesce(m.forwards, @, NULLI)]
                  ELSE new
    IN execute_query(d, [d EXCEPT !.messages = Upsert(d.messages, k, new, merged)], failed)

\* A row of message_contents.
ContentRow(m, c) ==
    [message_id |-> m.message_id, chat_id |-> m.chat_id, content_type |-> c.kind,
     text_content |-> c.text, file_id |-> c.file_id, caption |-> c.caption]

InsertContent(d, m, c) == [d EXCEPT !.contents = Append(@, ContentRow(m, c))]

\* SELECT EXISTS(... WHERE message_id = $1 AND chat_id = $2 AND content_type = kind)
ContentExists(d, m, kind) ==
    \E i \in DOMAIN d.contents :
        /\ d.contents[i].message_id = m.message_id
        /\ d.contents[i].chat_id = m.chat_id
        /\ d.contents[i].content_type = kind

\* UPDATE message_contents SET ... WHERE message_id = $1 AND chat_id = $2 AND content_type = 'photo'
UpdateContent(d, m, c) ==
    [d EXCEPT !.contents =
        [i \in DOMAIN @ |->
            IF /\ @[i].message_id = m.message_id
               /\ @[i].chat_id = m.chat_id
               /\ @[i].content_type = c.kind
            THEN ContentRow(m, c) ELSE @[i]]]

\* The save_content of each handler: q is the number of queries issued before
\* it, fail the number of the query that raises (0: none). The result holds
\* the store, the handler's return value taken as a truth value, and the
\* number of queries issued so far.
TextSaveContent(d, m, c, q, fail) ==
    LET r == execute_query(d, InsertContent(d, m, c), fail = q + 1)
    IN [db |-> r.db, ok |-> r.ok, q |-> q + 1]

VideoSaveContent(d, m, c, q, fail) ==
    LET r == execute_query(d, InsertContent(d, m, c), fail = q + 1)
    IN [db |-> r.db, ok |-> r.ok, q |-> q + 1]

\* execute_query answers (True, None) to a statement that is no SELECT, so
\* `result[0][0] if success and result else None` is None.
AudioSaveContent(d, m, c, q, fail) ==
    LET r == execute_query(d, InsertContent(d, m, c), fail = q + 1)
    IN [db |-> r.db, ok |-> FALSE, q |-> q + 1]

PhotoSaveContent(d, m, c, q, fail) ==
    IF c.file_id = NULL
    THEN [db |-> d, ok |-> FALSE, q |-> q]
    ELSE LET ex == execute_query(d, d, fail = q + 1)
         IN IF ~ex.ok
            THEN [db |-> d, ok |-> FALSE, q |-> q + 1]
            ELSE LET d2 == IF ContentExists(d, m, "photo")
                           THEN UpdateContent(d, m, c)
                           ELSE InsertContent(d, m, c)
                     r == execute_query(d, d2, fail = q + 2)
                 IN [db |-> r.db, ok |-> r.ok, q |-> q + 2]

save_content(d, m, c, q, fail) ==
    CASE c.kind = "text" -> TextSaveContent(d, m, c, q, fail)
      [] c.kind = "photo" -> PhotoSaveContent(d, m, c, q, fail)
      [] c.kind = "video" -> VideoSaveContent(d, m, c, q, fail)
      [] c.kind = "audio" -> AudioSaveContent(d, m, c, q, fail)

\* The queries a step issued, as entries of the log of a save_message call.
Step(name, item) == [step |-> name, item |-> item]

Steps(name, item, n) == [k \in 1..n |-> Step(name, item)]

\* A loop over message.contents that goes on after an item that failed.
RECURSIVE SaveContentsAll(_, _, _, _, _)
SaveContentsAll(d, m, i, q, fail) ==
    IF i > Len(m.contents)
    THEN [db |-> d, ok |-> TRUE, q |-> q, log |-> <<>>]
    ELSE LET r == save_content(d, m, m.contents[i], q, fail)
             rest == SaveContentsAll(r.db, m, i + 1, r.q, fail)
         IN [rest EXCEPT !.ok = r.ok /\ @, !.log = Steps("content", i, r.q - q) \o @]

\* for content in message.contents: if not await handler.save_content(...): return False
RECURSIVE _save_message_contents(_, _, _, _, _)
_save_message_contents(d, m, i, q, fail) ==
    IF i > Len(m.contents)
    THEN [db |-> d, ok |-> TRUE, q |-> q, log |-> <<>>]
    ELSE LET r == save_content(d, m, m.contents[i], q, fail)
         IN IF ~r.ok
            THEN [db |-> r.db, ok |-> FALSE, q |-> r.q, log |-> Steps("content", i, r.q - q)]
            ELSE LET rest == _save_message_contents(r.db, m, i + 1, r.q, fail)
                 IN [rest EXCEPT !.log = Steps("content", i, r.q - q) \o @]

\* save_message: chat upsert, user upsert when user_id is set, metadata, contents.
\* The result holds the store, the return value, the number of queries
\* issued and the log of these queries, in the order of their issue.
save_message(d, m, fail) ==
    LET r1 == _ensure_chat_exists(d, m, fail = 1)
        log1 == <<Step("chat", 0)>>
    IN IF ~r1.ok THEN [db |-> r1.db, ok |-> FALSE, q |-> 1, log |-> log1]
       ELSE LET hasUser == m.user_id # NULLI /\ m.user_id # 0
                q2 == IF hasUser THEN 2 ELSE 1
                r2 == IF hasUser THEN _ensure_user_exists(r1.db, m, fail = 2) ELSE r1
                log2 == IF hasUser THEN Append(log1, Step("user", 0)) ELSE log1
            IN IF ~r2.ok THEN [db |-> r2.db, ok |-> FALSE, q |-> q2, log |-> log2]
               ELSE LET r3 == _save_message_metadata(r2.db, m, fail = q2 + 1)
                        log3 == Append(log2, Step("metadata", 0))
                    IN IF ~r3.ok THEN [db |-> r3.db, ok |-> FALSE, q |-> q2 + 1, log |-> log3]
                       ELSE LET r4 == _save_message_contents(r3.db, m, 1, q2 + 1, fail)
                            IN [r4 EXCEPT !.log = log3 \o @]

\* The number of queries save_message(m) issues when none raises.
QueriesOf(m) == save_message(EmptyDB, m, 0).q

\* ---- the action: one call of save_message(m) in which query number `fail`
\* ---- raises (0: every query succeeds).
SaveMessage(m, fail) ==
    /\ UNCHANGED outsideStore
    /\ Len(saveLog) < MaxSaves
    /\ LET r == save_message(db, m, fail)
       IN /\ fail <= r.q
          /\ db' = r.db
          /\ saveLog' = Append(saveLog, [msg |-> m, ret |-> r.ok, clean |-> fail = 0,
                                         queries |-> r.log, fail |-> fail])
          /\ UNCHANGED loadLog

\* The keys of the messages of Msgs.
Keys == {<<1, 1>>, <<2, 1>>}

\* How many load_message calls one behaviour makes.
MaxLoads == 1

\* load_message returning None.
NoMessage == [found |-> FALSE]

\* The handlers that define load_content: TextMessageDBHandler and
\* VideoMessageDBHandler.  PhotoMessageDBHandler and AudioMessageDBHandler
\* define save_content only, and BaseDBHandler declares no load_content.
HasLoadContent(kind) == kind \in {"text", "video"}

\* Every handler with a load_content.
HasLoadContentAll(kind) == TRUE

\* SELECT ... FROM message_contents WHERE message_id = $1 AND chat_id = $2 AND
\* content_type = kind: the places of the rows, in the order of insertion.
MatchingRows(d, k, kind) ==
    SelectSeq([i \in DOMAIN d.contents |-> i],
              LAMBDA i : /\ <<d.contents[i].message_id, d.contents[i].chat_id>> = k
                         /\ d.contents[i].content_type = kind)

\* SELECT DISTINCT content_type FROM message_contents WHERE message_id = $1 AND chat_id = $2
ContentTypes(d, k) == {kind \in {"text", "photo", "video", "audio"} : MatchingRows(d, k, kind) # <<>>}

\* load_content of a handler: the item made of result[0].  The query has no
\* ORDER BY; first tells which of the matching rows the database returns first.
load_content(d, k, kind, first) ==
    LET rows == MatchingRows(d, k, kind)
        row == d.contents[rows[IF first <= Len(rows) THEN first ELSE Len(rows)]]
    IN [kind |-> kind, text |-> row.text_content, file_id |-> row.file_id, caption |-> row.caption]

\* _load_message_contents: None (here "error") when a handler raises, for the
\* `except Exception` of line 393 catches the AttributeError of a handler
\* without load_content; else the items, one for each content type.
_load_message_contents(d, k, first) ==
    IF \E kind \in ContentTypes(d, k) : ~HasLoadContent(kind)
    THEN [ok |-> FALSE, items |-> {}]
    ELSE [ok |-> TRUE, items |-> {load_content(d, k, kind, first) : kind \in ContentTypes(d, k)}]

\* load_message(message_id, chat_id): None when the messages row or the chats
\* row is missing, when the contents could not be loaded, and when Message
\* rejects an empty content list (min_length=1).
load_message(d, k, first) ==
    IF k \notin DOMAIN d.messages \/ k[2] \notin DOMAIN d.chats
    THEN NoMessage
    ELSE LET c == _load_message_contents(d, k, first)
         IN IF ~c.ok \/ c.items = {}
            THEN NoMessage
            ELSE [found |-> TRUE, message_id |-> k[1], chat_id |-> k[2],
                  text |-> d.messages[k].text, views |-> d.messages[k].views,
                  contents |-> c.items]

\* ---- the action: one call of load_message(k).  The record keeps what the
\* ---- store held for k at the call.
LoadMessage(k, first) ==
    /\ UNCHANGED outsideStore
    /\ Len(loadLog) < MaxLoads
    /\ loadLog' = Append(loadLog, [key |-> k, result |-> load_message(db, k, first),
                                   stored |-> ContentTypes(db, k),
                                   rows |-> {db.contents[i] : i \in DOMAIN db.contents},
                                   saves |-> Len(saveLog)])
    /\ UNCHANGED <<db, saveLog>>

InitConvert ==
    /\ cvLog = <<>>
    /\ cvQueue = <<>>

InitLoops == excLog = <<>>

\* The tasks that call the methods of the one TelegramService.
NSvcCallers == 2

SvcCallers == 1..NSvcCallers

\* TelegramService.__init__, lines 29-36.
InitService ==
    /\ svClient = "none"
    /\ svRunning = FALSE
    /\ svLock = 0
    /\ svLockQ = <<>>
    /\ svOp = [c \in SvcCallers |-> "none"]
    /\ svPc = [c \in SvcCallers |-> "idle"]
    /\ svRet = [c \in SvcCallers |-> "none"]

InitStore ==
    /\ db = EmptyDB
    /\ saveLog = <<>>
    /\ loadLog = <<>>

NextDB ==
    \/ \E m \in Msgs : \E fail \in 0..QueriesOf(m) : SaveMessage(m, fail)
    \/ \E k \in Keys : \E first \in 1..MaxSaves : LoadMessage(k, first)


\* ---- rows of a message in the store
MessageRows(k) == IF k \in DOMAIN db.messages THEN 1 ELSE 0

ContentRows(k, kind) ==
    Cardinality({i \in DOMAIN db.contents :
        /\ <<db.contents[i].message_id, db.contents[i].chat_id>> = k
        /\ db.contents[i].content_type = kind})

ItemsOfKind(m, kind) == Cardinality({i \in DOMAIN m.contents : m.contents[i].kind = kind})

Kinds == {"text", "photo", "video", "audio"}

\* C1: saving the same message twice, every query succeeding both times,
\* leaves exactly one row in messages for (message_id, chat_id) and exactly
\* one message_contents row per content item, for every content kind the
\* message carries.  (The claim as stated; the text and video handlers insert
\* a new row on every save.)
C1_SavedTwiceOneRowEach ==
    (/\ Len(saveLog) = 2
     /\ saveLog[1].msg = saveLog[2].msg
     /\ saveLog[1].clean /\ saveLog[2].clean)
    => LET m == saveLog[1].msg
       IN /\ MessageRows(Key(m)) = 1
          /\ \A kind \in Kinds : ContentRows(Key(m), kind) = ItemsOfKind(m, kind)

(***************************************************************************)
(*                         PART 2: MessageStorage                          *)
(***************************************************************************)

\* max_size of the deque.
MaxSize == 2

\* How many events one behaviour hands to add_message.
MaxEvents == 3

\* The concurrent callers of wait_for_message.
NWaiters == 2

Waiters == 1..NWaiters

\* The grouped_id values of an event; 0 is None.
GroupIds == {0, 1}

\* The lock requests of add_message and clear, as entries of lockQ (a caller
\* of wait_for_message is its number; event e's add_message is AddTask(e)).
AddTask(e) == 100 + e

ClearTask == 200

NoResult == [kind |-> "pending", items |-> <<>>]

InitStorage ==
    /\ queue = <<>>
    /\ events = <<>>
    /\ ev = FALSE
    /\ lock = 0
    /\ lockQ = <<>>
    /\ waiters = 0
    /\ wpc = [w \in Waiters |-> "idle"]
    /\ wfinite = [w \in Waiters |-> TRUE]
    /\ wgt = [w \in Waiters |-> TRUE]
    /\ wgroup = [w \in Waiters |-> <<>>]
    /\ wresult = [w \in Waiters |-> NoResult]
    /\ returned = <<>>
    /\ sawEmpty = [w \in Waiters |-> FALSE]
    /\ dropLog = <<>>

\* A remove that leaves the deque as it is.
DequeRemoveNone(q, e) == q

\* A remove that empties the deque.
DequeRemoveAll(q, e) == <<>>

\* A deque without maxlen.
DequeAppendUnbounded(q, e) == Append(q, e)

\* What deque(maxlen=max_size).append discards.
DequeDropped(q) == IF Len(q) >= MaxSize THEN <<Head(q)>> ELSE <<>>

\* deque(maxlen=max_size).append: a full deque drops its oldest element.
DequeAppend(q, e) == IF Len(q) >= MaxSize THEN Append(Tail(q), e) ELSE Append(q, e)

\* deque.remove(x): the first occurrence.
RECURSIVE DequeRemove(_, _)
DequeRemove(q, e) ==
    IF q = <<>> THEN <<>>
    ELSE IF Head(q) = e THEN Tail(q) ELSE <<Head(q)>> \o DequeRemove(Tail(q), e)

\* asyncio.Lock.acquire returns at once, without suspending, only when the
\* lock is free and nobody is queued for it.
LockFree == lock = 0 /\ lockQ = <<>>

\* The calls of wait_for_message that are under way, for the history variable.
InCall(pc) == {w \in Waiters : pc[w] # "idle"}

NoteEmpty(pc, q) == [w \in Waiters |-> IF w \in InCall(pc) THEN sawEmpty[w] \/ q = <<>> ELSE sawEmpty[w]]

\* The `finally` of wait_for_message, lines 123-127, once it holds the lock.
\* pc, lq, e, res are the values the step has computed so far.
FinallyCS(w, pc, lq, e, res, q) ==
    /\ waiters' = waiters - 1
    /\ ev' = IF waiters - 1 = 0 THEN FALSE ELSE e
    /\ wpc' = [pc EXCEPT ![w] = "idle"]
    /\ lockQ' = lq
    /\ lock' = 0
    /\ wresult' = res
    /\ queue' = q
    /\ sawEmpty' = NoteEmpty(pc, q)

\* A return of wait_for_message with the lock released: the `finally` then
\* asks for the lock again, at once when it is free and nobody is queued
\* (lk is the lock's holder after the return).
AfterReturn(w, pc, lq, lk, e, res, q) ==
    IF lk = 0 /\ lq = <<>>
    THEN FinallyCS(w, pc, lq, e, res, q)
    ELSE /\ wpc' = [pc EXCEPT ![w] = "fin"]
         /\ lockQ' = Append(lq, w)
         /\ lock' = lk
         /\ ev' = e
         /\ wresult' = res
         /\ queue' = q
         /\ sawEmpty' = NoteEmpty(pc, q)
         /\ UNCHANGED waiters

\* Lines 96-102: count the waiter, then wait for the event; an event that is
\* already set lets the caller go on.
RegisterCS(w, pc, lq) ==
    /\ waiters' = waiters + 1
    /\ wpc' = [pc EXCEPT ![w] = IF ev THEN "woken" ELSE "waiting"]
    /\ lockQ' = lq
    /\ lock' = 0
    /\ UNCHANGED <<queue, ev>>

\* Lines 106-121 under the lock. The newest event (_queue[-1]) is taken. For
\* an event with a grouped_id, _process_media_group is awaited inside the
\* `async with self._lock` block: its wait for the event (line 73) returns at
\* once when the event is set, and the caller then asks at line 77 for the
\* lock it holds itself; with the event clear it waits out group_timeout.
\* With a group_timeout of 0 or less the loop of line 70 is not entered and
\* the group is the first event alone.
PickupCS(w, lq) ==
    IF queue = <<>>
    THEN /\ AfterReturn(w, wpc, lq, 0, FALSE, [wresult EXCEPT ![w] = [kind |-> "none", items |-> <<>>]], queue)
         /\ UNCHANGED wgroup
    ELSE LET first == queue[Len(queue)]
             q2 == DequeRemove(queue, first)
         IN IF events[first] # 0 /\ ~wgt[w]
            THEN /\ AfterReturn(w, wpc, lq, 0, ev, [wresult EXCEPT ![w] = [kind |-> "batch", items |-> <<first>>]], q2)
                 /\ UNCHANGED wgroup
            ELSE IF events[first] # 0
            THEN /\ queue' = q2
                 /\ lock' = w
                 /\ wgroup' = [wgroup EXCEPT ![w] = <<first>>]
                 /\ wpc' = [wpc EXCEPT ![w] = IF ev THEN "grp_lock" ELSE "grp_wait"]
                 /\ lockQ' = IF ev THEN Append(lq, w) ELSE lq
                 /\ sawEmpty' = NoteEmpty(wpc, q2)
                 /\ UNCHANGED <<ev, waiters, wresult>>
            ELSE /\ AfterReturn(w, wpc, lq, 0, ev, [wresult EXCEPT ![w] = [kind |-> "msg", items |-> <<first>>]], q2)
                 /\ UNCHANGED wgroup

\* add_message under the lock, lines 31-33. Event.set() resolves the future
\* of every caller suspended in Event.wait(): it goes on even if the event is
\* cleared before it runs.
AddCS(e, lq) ==
    /\ queue' = DequeAppend(queue, e)
    /\ ev' = IF waiters > 0 THEN TRUE ELSE ev
    /\ wpc' = IF waiters > 0
              THEN [w \in Waiters |-> IF wpc[w] = "waiting" THEN "woken" ELSE wpc[w]]
              ELSE wpc
    /\ lockQ' = lq
    /\ lock' = 0
    /\ sawEmpty' = sawEmpty
    /\ UNCHANGED <<waiters, wresult, wgroup>>

\* clear under the lock, lines 133-134.
ClearCS(lq) ==
    /\ queue' = <<>>
    /\ ev' = FALSE
    /\ lockQ' = lq
    /\ lock' = 0
    /\ sawEmpty' = NoteEmpty(wpc, <<>>)
    /\ UNCHANGED <<waiters, wpc, wresult, wgroup>>

Enqueue(t) ==
    /\ lockQ' = Append(lockQ, t)
    /\ UNCHANGED <<queue, ev, lock, waiters>>

\* The history of returns: a step that gives caller w a message or a batch
\* (lines 119-121) adds the returned events to `returned`.
ReturnedBy(w) ==
    IF wresult'[w] # wresult[w] /\ wresult'[w].kind \in {"msg", "batch"}
    THEN wresult'[w].items
    ELSE <<>>

RECURSIVE ReturnedUpTo(_)
ReturnedUpTo(n) == IF n = 0 THEN <<>> ELSE ReturnedUpTo(n - 1) \o ReturnedBy(n)

NoteReturned == returned' = returned \o ReturnedUpTo(NWaiters)

\* ---- add_message(message): the event gets the next id.
add_message(g) ==
    /\ UNCHANGED outsideStorage
    /\ Len(events) < MaxEvents
    /\ events' = Append(events, g)
    /\ LET e == Len(events) + 1
       IN IF LockFree
          THEN AddCS(e, lockQ) /\ dropLog' = dropLog \o DequeDropped(queue)
          ELSE Enqueue(AddTask(e)) /\ UNCHANGED <<wpc, wresult, wgroup, sawEmpty, dropLog>>
    /\ UNCHANGED <<wfinite, wgt>>
    /\ NoteReturned

\* ---- clear()
clear ==
    /\ UNCHANGED outsideStorage
    /\ ClearTask \notin RangeOf(lockQ)
    /\ IF LockFree
       THEN ClearCS(lockQ)
       ELSE Enqueue(ClearTask) /\ UNCHANGED <<wpc, wresult, wgroup, sawEmpty>>
    /\ UNCHANGED <<events, wfinite, wgt, dropLog>>
    /\ NoteReturned

\* ---- wait_for_message(timeout, group_timeout) is called.
wait_for_message(w, finite, positive) ==
    /\ UNCHANGED outsideStorage
    /\ wpc[w] = "idle"
    /\ wfinite' = [wfinite EXCEPT ![w] = finite]
    /\ wgt' = [wgt EXCEPT ![w] = positive]
    /\ wresult' = [wresult EXCEPT ![w] = NoResult]
    /\ sawEmpty' = [sawEmpty EXCEPT ![w] = queue = <<>>]
    /\ wgroup' = [wgroup EXCEPT ![w] = <<>>]
    /\ IF LockFree
       THEN RegisterCS(w, wpc, lockQ)
       ELSE Enqueue(w) /\ wpc' = [wpc EXCEPT ![w] = "reg"]
    /\ UNCHANGED <<events, dropLog>>
    /\ NoteReturned

\* ---- line 102 times out: return None, then the `finally`.
WaitTimeout(w) ==
    /\ UNCHANGED outsideStorage
    /\ wpc[w] = "waiting"
    /\ wfinite[w]
    /\ AfterReturn(w, wpc, lockQ, lock, ev, [wresult EXCEPT ![w] = [kind |-> "none", items |-> <<>>]], queue)
    /\ UNCHANGED <<events, wfinite, wgt, wgroup, dropLog>>
    /\ NoteReturned

\* ---- the caller resumes after Event.wait() and asks for the lock, line 106.
Resume(w) ==
    /\ UNCHANGED outsideStorage
    /\ wpc[w] = "woken"
    /\ IF LockFree
       THEN PickupCS(w, lockQ)
       ELSE Enqueue(w) /\ wpc' = [wpc EXCEPT ![w] = "pick"] /\ UNCHANGED <<wresult, wgroup, sawEmpty>>
    /\ UNCHANGED <<events, wfinite, wgt, dropLog>>
    /\ NoteReturned

\* ---- line 73 times out in _process_media_group: the group is returned,
\* ---- the lock of line 106 released, then the `finally`.
GroupTimeout(w) ==
    /\ UNCHANGED outsideStorage
    /\ wpc[w] = "grp_wait"
    /\ AfterReturn(w, wpc, lockQ, 0, ev, [wresult EXCEPT ![w] = [kind |-> "batch", items |-> wgroup[w]]], queue)
    /\ UNCHANGED <<events, wfinite, wgt, wgroup, dropLog>>
    /\ NoteReturned

\* ---- the lock is free: the first task queued for it gets it and runs its
\* ---- critical section.
LockGrant ==
    /\ UNCHANGED outsideStorage
    /\ lock = 0
    /\ lockQ # <<>>
    /\ LET t == Head(lockQ)
           lq == Tail(lockQ)
       IN \/ /\ t \in Waiters /\ wpc[t] = "reg"
             /\ RegisterCS(t, wpc, lq)
             /\ UNCHANGED <<wresult, wgroup, sawEmpty>>
          \/ /\ t \in Waiters /\ wpc[t] = "pick"
             /\ PickupCS(t, lq)
          \/ /\ t \in Waiters /\ wpc[t] = "fin"
             /\ FinallyCS(t, wpc, lq, ev, wresult, queue)
             /\ UNCHANGED wgroup
          \/ /\ t = ClearTask
             /\ ClearCS(lq)
          \/ /\ t \notin Waiters /\ t # ClearTask
             /\ AddCS(t - 100, lq)
    /\ dropLog' = IF Head(lockQ) \notin Waiters /\ Head(lockQ) # ClearTask
                  THEN dropLog \o DequeDropped(queue)
                  ELSE dropLog
    /\ UNCHANGED <<events, wfinite, wgt>>
    /\ NoteReturned

\* GroupTimeout and LockGrant are no disjuncts of NextStorage: no reachable
\* state enables them (GroupWaitUnreachable, LockNeverGranted below). An event
\* is picked up only by a counted waiter, every add_message with a counted
\* waiter sets the event, and the event is cleared only on an empty queue or
\* with no waiter counted; so the event is set at every pickup, line 73
\* returns at once, and line 77 asks for the lock the caller already holds.
NextStorage ==
    \/ \E g \in GroupIds : add_message(g)
    \/ clear
    \/ \E w \in Waiters, finite, positive \in BOOLEAN : wait_for_message(w, finite, positive)
    \/ \E w \in Waiters : WaitTimeout(w)
    \/ \E w \in Waiters : Resume(w)


(***************************************************************************)
(*               PART 3: TelegramMonitor and MessageLoader                 *)
(***************************************************************************)

\* How many events the client delivers in one behaviour.
MaxDelivered == 2

\* How many times start_monitor starts the monitor in one behaviour.
MaxStarts == 2

Tasks == 1..MaxStarts

ChatIds == {1, 2}

\* What converter.convert makes of event e: a text message of the event's
\* chat, or None (0) for an event without content.
MonMsg(e) ==
    [Msg(e, NULLI, NULL, "Chan", "hello", NULLI, 10, <<TextItem("hello")>>)
        EXCEPT !.chat_id = delivered[e].chat]

InitMonitor ==
    /\ monRunning = FALSE
    /\ handlerRegs = 0
    /\ delivered = <<>>
    /\ converting = {}
    /\ pqueue = <<>>
    /\ enqLog = <<>>
    /\ wt = [t \in Tasks |-> "none"]
    /\ wm = [t \in Tasks |-> 0]
    /\ wcancel = [t \in Tasks |-> FALSE]
    /\ curTask = 0
    /\ stopAwait = {}


\* ---- start_monitor() on a connected client.  While running it logs a
\* ---- warning and returns; while not running the handler is registered (once
\* ---- more) and the db_writer task created.
start_monitor ==
    /\ UNCHANGED outsideMonitor
    /\ IF monRunning
       THEN UNCHANGED <<handlerRegs, monRunning, curTask, wt>>
       ELSE /\ curTask < MaxStarts
            /\ handlerRegs' = handlerRegs + 1
            /\ monRunning' = TRUE
            /\ curTask' = curTask + 1
            /\ wt' = [wt EXCEPT ![curTask + 1] = "get"]
    /\ UNCHANGED <<delivered, converting, pqueue, enqLog, wm, wcancel, stopAwait, dbVars>>

\* ---- stop_monitor().  While not running it returns; while running the
\* ---- flag is cleared, the task of _tasks cancelled, and the call suspends
\* ---- awaiting it.
stop_monitor ==
    /\ UNCHANGED outsideMonitor
    /\ IF ~monRunning
       THEN UNCHANGED <<monRunning, wcancel, stopAwait>>
       ELSE /\ monRunning' = FALSE
            /\ IF wt[curTask] # "done"
               THEN /\ wcancel' = [wcancel EXCEPT ![curTask] = TRUE]
                    /\ stopAwait' = stopAwait \cup {curTask}
               ELSE UNCHANGED <<wcancel, stopAwait>>
    /\ UNCHANGED <<handlerRegs, delivered, converting, pqueue, enqLog, wt, wm, curTask, dbVars>>

\* stop_monitor without lines 68 to 72: it returns with its task still running.
StopReturnEarly(t) ==
    /\ UNCHANGED outsideMonitor
    /\ t \in stopAwait
    /\ stopAwait' = stopAwait \ {t}
    /\ UNCHANGED <<monRunning, handlerRegs, delivered, converting, pqueue, enqLog, wt, wm, wcancel, curTask, dbVars>>

\* ---- the awaited task has finished: stop_monitor returns.
StopReturn(t) ==
    /\ UNCHANGED outsideMonitor
    /\ t \in stopAwait
    /\ wt[t] = "done"
    /\ stopAwait' = stopAwait \ {t}
    /\ UNCHANGED <<monRunning, handlerRegs, delivered, converting, pqueue, enqLog, wt, wm, wcancel, curTask, dbVars>>

\* ---- the client delivers an event: one _handle_new_message task per
\* ---- registration, each suspended in converter.convert.
Deliver(c, hasContent) ==
    /\ UNCHANGED outsideMonitor
    /\ Len(delivered) < MaxDelivered
    /\ handlerRegs > 0
    /\ delivered' = Append(delivered, [chat |-> c, hasContent |-> hasContent])
    /\ converting' = converting \cup {<<Len(delivered) + 1, r>> : r \in 1..handlerRegs}
    /\ UNCHANGED <<monRunning, handlerRegs, pqueue, enqLog, wt, wm, wcancel, curTask, stopAwait, dbVars>>

\* ---- process_message resumes with the result of convert: None is counted
\* ---- as failed, a message is put on _processed_queue.
FinishConvert(e, r) ==
    /\ UNCHANGED outsideMonitor
    /\ <<e, r>> \in converting
    /\ converting' = converting \ {<<e, r>>}
    /\ IF delivered[e].hasContent
       THEN pqueue' = Append(pqueue, e) /\ enqLog' = Append(enqLog, e)
       ELSE UNCHANGED <<pqueue, enqLog>>
    /\ UNCHANGED <<monRunning, handlerRegs, delivered, wt, wm, wcancel, curTask, stopAwait, dbVars>>

\* ---- get_processed_message returns the head of the queue to the writer.
\* ---- (On an empty queue it returns None after 1 s, the writer sleeps 1 s
\* ---- and asks again: no change of state.)
WriterGet(t) ==
    /\ UNCHANGED outsideMonitor
    /\ wt[t] = "get"
    /\ ~wcancel[t]
    /\ pqueue # <<>>
    /\ wm' = [wm EXCEPT ![t] = Head(pqueue)]
    /\ pqueue' = Tail(pqueue)
    /\ wt' = [wt EXCEPT ![t] = "save"]
    /\ UNCHANGED <<monRunning, handlerRegs, delivered, converting, enqLog, wcancel, curTask, stopAwait, dbVars>>

\* ---- the writer saves its message: save_message(message) in which query
\* ---- number `fail` raises (0: none). Whatever save_message returns, the
\* ---- loop goes on to the next get_processed_message.
WriterSave(t, fail) ==
    /\ UNCHANGED outsideMonitor
    /\ wt[t] = "save"
    /\ ~wcancel[t]
    /\ LET m == MonMsg(wm[t])
           r == save_message(db, m, fail)
       IN /\ fail <= r.q
          /\ db' = r.db
          /\ saveLog' = Append(saveLog, [msg |-> m, ret |-> r.ok, clean |-> fail = 0,
                                         queries |-> r.log, fail |-> fail])
          /\ UNCHANGED loadLog
    /\ wm' = [wm EXCEPT ![t] = 0]
    /\ wt' = [wt EXCEPT ![t] = "get"]
    /\ UNCHANGED <<monRunning, handlerRegs, delivered, converting, pqueue, enqLog, wcancel, curTask, stopAwait>>

\* ---- `async with PostgreSQLConnector()` raises (connect failed): the
\* ---- exception is logged, the writer sleeps 5 s and goes on with the loop.
WriterRaise == "done"

\* Lines 106-108, `except Exception`: log, sleep 5 s, back to the test of
\* the `while`; the writer is at get_processed_message again.
WriterExcept == "get"

ConnectErrorBody(t) ==
    /\ wt[t] = "save"
    /\ ~wcancel[t]
    /\ wm' = [wm EXCEPT ![t] = 0]
    /\ wt' = [wt EXCEPT ![t] = WriterExcept]
    /\ UNCHANGED <<monRunning, handlerRegs, delivered, converting, pqueue, enqLog, wcancel, curTask, stopAwait, dbVars>>

WriterConnectError(t) == UNCHANGED outsideMonitor /\ ConnectErrorBody(t)

\* ---- a cancelled writer resumes: CancelledError ends the task. A writer
\* ---- inside save_message leaves the queries it had completed (`done`).
WriterCancelled(t, done) ==
    /\ UNCHANGED outsideMonitor
    /\ wcancel[t]
    /\ wt[t] \in {"get", "save"}
    /\ IF wt[t] = "save"
       THEN LET r == save_message(db, MonMsg(wm[t]), done + 1)
            IN done + 1 <= r.q /\ db' = r.db
       ELSE done = 0 /\ db' = db
    /\ wt' = [wt EXCEPT ![t] = "done"]
    /\ wm' = [wm EXCEPT ![t] = 0]
    /\ wcancel' = [wcancel EXCEPT ![t] = FALSE]
    /\ UNCHANGED <<monRunning, handlerRegs, delivered, converting, pqueue, enqLog, curTask, stopAwait, saveLog, loadLog>>

NextMonitor ==
    \/ start_monitor
    \/ stop_monitor
    \/ \E t \in Tasks : StopReturn(t)
    \/ \E c \in ChatIds, h \in BOOLEAN : Deliver(c, h)
    \/ \E e \in DOMAIN delivered, r \in 1..MaxStarts : FinishConvert(e, r)
    \/ \E t \in Tasks : WriterGet(t)
    \/ \E t \in Tasks, fail \in 0..3 : WriterSave(t, fail)
    \/ \E t \in Tasks : WriterConnectError(t)
    \/ \E t \in Tasks, done \in 0..2 : WriterCancelled(t, done)

Enqueued == RangeOf(enqLog)

SavedIds == {saveLog[i].msg.message_id : i \in DOMAIN saveLog}

\* C4: a message whose save_message failed is not dropped: until a save of
\* it has succeeded it is still with the writer or on the queue, to be passed
\* to save_message again.  (The claim as stated; the writer only logs the
\* failure and goes on to the next message.)
C4_FailedSaveIsRetried ==
    \A i \in DOMAIN saveLog :
        ~saveLog[i].ret =>
            \/ \E j \in DOMAIN saveLog : j > i /\ saveLog[j].msg = saveLog[i].msg
            \/ \E t \in Tasks : wm[t] = saveLog[i].msg.message_id
            \/ saveLog[i].msg.message_id \in RangeOf(pqueue)

\* C5: for two events of one chat delivered in the order a then b (a with
\* content), a is put on the processed queue before b and passed to
\* save_message before b, in every interleaving of the two handlers.  (The
\* claim as stated; the handler that finishes convert first enqueues first.)
C5_ArrivalOrderKept ==
    \A a, b \in DOMAIN delivered :
        (a < b /\ delivered[a].chat = delivered[b].chat /\ delivered[a].hasContent)
        => /\ b \in Enqueued => a \in Enqueued
           /\ b \in SavedIds => a \in SavedIds


(***************************************************************************)
(*                         PART 4: CommentTracker                          *)
(***************************************************************************)

\* max_cached_comments (1000 by default), as the tracker of SpecTracker gets it.
MaxCached == 1

\* tracking_period, in hours (24 by default).
TrackingHours == 1

\* How far the clock runs.
MaxTime == 2

\* How many replies the collaborator receives in one behaviour.
MaxReplies == 2

\* How many drains (calls of get_comments that yield a reply) the consumer starts
\* in one behaviour.
MaxDrains == 2

\* `limit` of iter_messages (100 in the code).
FetchLimit == 1

Channels == {1, 2}

\* The posts of the channels: <<channel_id, message.id>>.
PostKeys == {<<1, 1>>, <<1, 2>>}

\* What load_channels may return.
LoadResults == {{1}}

\* comment.date: ids are given in the order of arrival.
DateOf(r) == r

NoPurge == [done |-> FALSE, purged |-> 0, drift |-> 0, stale |-> FALSE]

IdlePoll(pc) ==
    [pc |-> pc, cancel |-> FALSE, expired |-> 0, todo |-> <<>>, ch |-> 0,
     ci |-> 0, pi |-> 0, outerLen |-> 0, innerLen |-> 0, before |-> 0, added |-> 0, purged |-> 0]

IdleDrain(n) == [pc |-> "idle", no |-> n, key |-> 0, list |-> <<>>, idx |-> 0, rest |-> <<>>]

\* The tracker after construction, whatever its max_cached_comments.
\* No track_message call yet.
NoTrack == [n |-> 0, peer |-> "none", key |-> <<0, 0>>, ret |-> FALSE]

TrackerConstructed ==
    /\ trackLog = NoTrack
    /\ trActive = FALSE
    /\ starting = FALSE
    /\ trChannels = {}
    /\ trOrder = <<>>
    /\ trPosts = [ch \in Channels |-> <<>>]
    /\ processed = <<>>
    /\ cache = <<>>
    /\ totalCached = 0
    /\ lockHolder = "none"
    /\ lockWaiter = "none"
    /\ pollTask = IdlePoll("off")
    /\ drainer = IdleDrain(0)
    /\ now = 0
    /\ replies = <<>>
    /\ yieldLog = <<>>
    /\ appendLog = <<>>
    /\ purgedKeys = {}
    /\ lastPurge = NoPurge
    /\ capHit = FALSE

InitTracker == TrackerConstructed /\ maxCached = MaxCached

\* How many tasks call start_tracking and stop_tracking.
NCallers == 2

\* How many _tracking_loop tasks are created in one behaviour.
MaxLoops == 3

Callers == 1..NCallers

LoopIds == 1..MaxLoops

LifecycleConstructed ==
    /\ lcActive = FALSE
    /\ lcTaskRef = 0
    /\ lcLoops = [t \in LoopIds |-> "none"]
    /\ lcCancel = [t \in LoopIds |-> FALSE]
    /\ lcCalls = [c \in Callers |-> "idle"]
    /\ lcTarget = [c \in Callers |-> 0]
    /\ quiet = FALSE
    /\ ranQuiet = FALSE

InitLifecycle == LifecycleConstructed /\ lcFile = FALSE

\* The tables of createDB.py and what each depends on ("deps").
TableNames == {"users", "chats", "messages", "message_contents"}

Deps(t) ==
    CASE t = "users" -> {}
      [] t = "chats" -> {}
      [] t = "messages" -> {"users", "chats"}
      [] t = "message_contents" -> {"messages"}

\* creation_order as initialize_database writes it.
CodeOrder == <<"users", "chats", "messages", "message_contents">>

\* Every ordering of the table list.
Orderings ==
    {o \in [1..Cardinality(TableNames) -> TableNames] : \A t \in TableNames : \E i \in DOMAIN o : o[i] = t}

NoReport == <<"none">>

BootConstructed ==
    /\ created_tables = {}
    /\ remaining_tables = <<>>
    /\ made_progress = FALSE
    /\ bidx = 0
    /\ bpc = "new"
    /\ outcome = "none"
    /\ reported = NoReport
    /\ createLog = <<>>

InitBootstrap == BootConstructed /\ creation_order = CodeOrder /\ dbTables = {}



Init == InitStore /\ InitStorage /\ InitMonitor /\ InitTracker /\ InitLifecycle /\ InitBootstrap /\ InitConvert /\ InitLoops /\ InitService

SpecDB == Init /\ [][NextDB]_vars

SpecMonitor == Init /\ [][NextMonitor]_vars

MaxOf(S) == CHOOSE x \in S : \A y \in S : y <= x

\* tracked_messages_count of tracked posts held as (order, posts).
CountPosts(order, posts) == Cardinality(UNION {{ch} \X DOMAIN posts[ch] : ch \in RangeOf(order)})

tracked_messages_count == CountPosts(trOrder, trPosts)

TrackedKeys == UNION {{<<ch, posts.post>> : posts \in RangeOf(trPosts[ch])} : ch \in RangeOf(trOrder)}

\* The number of replies stored in a cache.
CachedReplies(c) == Cardinality(UNION {{i} \X DOMAIN c[i].replies : i \in DOMAIN c})

get_cached_count == totalCached

\* has_new_comments(): some list of the cache is not empty.
has_new_comments == \E i \in DOMAIN cache : cache[i].replies # <<>>

\* The seen-id set of a post (empty when the post has no entry).
SeenOf(proc, key) == IF key \in DOMAIN proc THEN proc[key] ELSE {}

\* The highest reply id seen for a post so far (0: none).
HighWater(proc, key) == IF SeenOf(proc, key) = {} THEN 0 ELSE MaxOf(SeenOf(proc, key))

\* A last_id that forgets what was seen.
LastIdForgets(proc, key) == 0

\* last_id of _get_message_comments: max(seen ids, default=0).
LastId(proc, key) == IF SeenOf(proc, key) = {} THEN 0 ELSE MaxOf(SeenOf(proc, key))

\* A cap check that is one reply late.
CapReachedLate(total) == total > maxCached

\* The cap check of _cache_new_comments.
CapReached(total) == total >= maxCached

\* A filter that keeps a post one hour too long.
KeepLate(time, expired_time) == time >= expired_time - 1

\* The filter of the purge step: the post stays tracked.
Keep(time, expired_time) == time > expired_time

\* _new_comments_cache.pop(channel_id, None)
CachePop(c, ch) == SelectSeq(c, LAMBDA e : e.ch # ch)

CacheIndex(c, key) == {i \in DOMAIN c : c[i].ch = key[1] /\ c[i].post = key[2]}

\* _new_comments_cache[channel_id][msg_id].append(comment), the entries
\* created when missing.
CacheAppend(c, key, r) ==
    IF CacheIndex(c, key) = {}
    THEN Append(c, [ch |-> key[1], post |-> key[2], replies |-> <<r>>])
    ELSE LET i == CHOOSE j \in CacheIndex(c, key) : TRUE
         IN [c EXCEPT ![i].replies = Append(@, r)]

\* The order in which get_comments walks the cache: the channels in the order
\* of their insertion, the posts of a channel in the order of theirs.
DrainRank(c, i) ==
    LET first == CHOOSE j \in DOMAIN c : c[j].ch = c[i].ch /\ \A k \in 1..(j - 1) : c[k].ch # c[i].ch
    IN first * (Len(c) + 1) + i

DrainOrder(c) ==
    [n \in 1..Len(c) |->
        CHOOSE i \in DOMAIN c : Cardinality({j \in DOMAIN c : DrainRank(c, j) < DrainRank(c, i)}) = n - 1]

\* sorted(comments, key=date): a stable sort.
SortedByDate(list) ==
    LET before(j, i) == DateOf(list[j]) < DateOf(list[i]) \/ (DateOf(list[j]) = DateOf(list[i]) /\ j < i)
    IN [n \in 1..Len(list) |->
           list[CHOOSE i \in DOMAIN list : Cardinality({j \in DOMAIN list : before(j, i)}) = n - 1]]

\* client.iter_messages(channel, reply_to=post, min_id=last_id, limit): the
\* newest replies to the post with an id above min_id, the newest first.
iter_messages(key, min_id) ==
    LET S == {r \in DOMAIN replies : replies[r] = key /\ r > min_id}
        n == IF Cardinality(S) < FetchLimit THEN Cardinality(S) ELSE FetchLimit
    IN [k \in 1..n |-> CHOOSE r \in S : Cardinality({q \in S : q > r}) = k - 1]


\* ---------------------------------------------------------------------------
\* The poll cycle: _tracking_loop, _check_for_new_comments, _cache_new_comments
\* ---------------------------------------------------------------------------

\* The purge loop of _check_for_new_comments over the channels `todo`, up to
\* its end or to the first `async with self._cache_lock` that has to wait
\* (wait: the channel whose cache entry is to be popped; 0: the loop ended).
RECURSIVE PurgeRun(_, _, _, _, _, _)
PurgeRun(todo, order, posts, c, free, expired_time) ==
    IF todo = <<>>
    THEN [order |-> order, posts |-> posts, cache |-> c, todo |-> <<>>, wait |-> 0, gone |-> {}]
    ELSE LET ch == Head(todo)
             kept == SelectSeq(posts[ch], LAMBDA e : Keep(e.time, expired_time))
             gone == {<<ch, e.post>> : e \in {x \in RangeOf(posts[ch]) : ~Keep(x.time, expired_time)}}
             posts2 == [posts EXCEPT ![ch] = kept]
             order2 == SelectSeq(order, LAMBDA x : x # ch)
         IN IF kept # <<>>
            THEN LET r == PurgeRun(Tail(todo), order, posts2, c, free, expired_time)
                 IN [r EXCEPT !.gone = @ \cup gone]
            ELSE IF free
                 THEN LET r == PurgeRun(Tail(todo), order2, posts2, CachePop(c, ch), free, expired_time)
                      IN [r EXCEPT !.gone = @ \cup gone]
                 ELSE [order |-> order2, posts |-> posts2, cache |-> c, todo |-> Tail(todo),
                       wait |-> ch, gone |-> gone]

\* _get_message_comments creates the seen-id entry of the post it is asked for.
WithKey(proc, key) == IF key \in DOMAIN proc THEN proc ELSE (key :> {}) @@ proc

\* _cache_new_comments has the lock: it starts to walk _tracked_messages and
\* suspends in the first iter_messages; with nothing tracked it is done.
BeginCache(order, posts, waiter, pt) ==
    IF order = <<>>
    THEN /\ lockHolder' = waiter
         /\ lockWaiter' = "none"
         /\ processed' = processed
         /\ pollTask' = IdlePoll("sleep")
    ELSE /\ lockHolder' = "poll"
         /\ lockWaiter' = waiter
         /\ processed' = WithKey(processed, <<order[1], posts[order[1]][1].post>>)
         /\ pollTask' = [pt EXCEPT !.pc = "fetch", !.ci = 1, !.pi = 1, !.outerLen = Len(order),
                                   !.innerLen = Len(posts[order[1]])]

\* `async with self._cache_lock` of _cache_new_comments.
EnterCache(order, posts, holder, pt) ==
    IF holder = "none"
    THEN BeginCache(order, posts, "none", pt)
    ELSE /\ lockHolder' = holder
         /\ lockWaiter' = "poll"
         /\ processed' = processed
         /\ pollTask' = [pt EXCEPT !.pc = "cache_wait"]

\* The purge step is over (r: what PurgeRun left): _cache_new_comments is next.
AfterPurge(r, holder, pt) ==
    /\ trOrder' = r.order
    /\ trPosts' = r.posts
    /\ cache' = r.cache
    /\ lastPurge' = [done |-> TRUE, purged |-> pt.purged,
                     drift |-> CountPosts(r.order, r.posts) - (pt.before + pt.added - pt.purged),
                     stale |-> \E ch \in RangeOf(r.order) : \E e \in RangeOf(r.posts[ch]) :
                                   e.time < pt.expired]
    /\ EnterCache(r.order, r.posts, holder, pt)

\* The purge step has to wait for the lock.
PurgeWaits(r, holder, pt) ==
    /\ trOrder' = r.order
    /\ trPosts' = r.posts
    /\ cache' = r.cache
    /\ lockHolder' = holder
    /\ lockWaiter' = "poll"
    /\ pollTask' = [pt EXCEPT !.pc = "purge_wait", !.todo = r.todo, !.ch = r.wait]
    /\ UNCHANGED <<processed, lastPurge>>

\* ---- the loop wakes up with _is_active set: _check_for_new_comments().
PollCycle ==
    /\ UNCHANGED <<outsideTracker, maxCached>>
    /\ pollTask.pc = "sleep"
    /\ ~pollTask.cancel
    /\ trActive
    /\ LET expired_time == now - TrackingHours
           r == PurgeRun(trOrder, trOrder, trPosts, cache, lockHolder = "none", expired_time)
           pt == [pollTask EXCEPT !.expired = expired_time, !.before = tracked_messages_count,
                                  !.added = 0, !.purged = Cardinality(r.gone)]
       IN /\ purgedKeys' = r.gone
          /\ IF r.wait = 0 THEN AfterPurge(r, lockHolder, pt) ELSE PurgeWaits(r, lockHolder, pt)
    /\ UNCHANGED <<trActive, starting, trChannels, totalCached, drainer, now, replies, yieldLog, appendLog, capHit>>

\* ---- the purge step gets the lock: it pops the channel's cache entry,
\* ---- releases the lock and goes on with the channels left.
PollPurgeResume ==
    /\ UNCHANGED <<outsideTracker, maxCached>>
    /\ pollTask.pc = "purge_wait"
    /\ ~pollTask.cancel
    /\ lockHolder = "poll"
    /\ LET r == PurgeRun(pollTask.todo, trOrder, trPosts, CachePop(cache, pollTask.ch),
                         lockWaiter = "none", pollTask.expired)
           pt == [pollTask EXCEPT !.purged = @ + Cardinality(r.gone)]
       IN /\ purgedKeys' = purgedKeys \cup r.gone
          /\ IF r.wait = 0 THEN AfterPurge(r, lockWaiter, pt) ELSE PurgeWaits(r, lockWaiter, pt)
    /\ UNCHANGED <<trActive, starting, trChannels, totalCached, drainer, now, replies, yieldLog, appendLog, capHit>>

\* ---- _cache_new_comments gets the lock it waited for.
PollCacheResume ==
    /\ UNCHANGED <<outsideTracker, maxCached>>
    /\ pollTask.pc = "cache_wait"
    /\ ~pollTask.cancel
    /\ lockHolder = "poll"
    /\ BeginCache(trOrder, trPosts, lockWaiter, pollTask)
    /\ UNCHANGED <<trActive, starting, trChannels, trOrder, trPosts, cache, totalCached, drainer, now,
                   replies, yieldLog, appendLog, purgedKeys, lastPurge, capHit>>


\* The body of `async for comment in self._get_message_comments(...)` over the
\* replies fetched: a reply above last_id is marked seen and, unless the cap
\* is reached (the method returns), appended to the cache.
RECURSIVE CacheFetched(_, _, _, _, _, _)
CacheFetched(fetched, key, last_id, c, proc, total) ==
    IF fetched = <<>>
    THEN [cache |-> c, proc |-> proc, total |-> total, log |-> <<>>, cap |-> FALSE]
    ELSE LET r == Head(fetched)
             proc2 == [proc EXCEPT ![key] = @ \cup {r}]
         IN IF ~(r > last_id)
            THEN CacheFetched(Tail(fetched), key, last_id, c, proc, total)
            ELSE IF CapReached(total)
                 THEN [cache |-> c, proc |-> proc2, total |-> total, log |-> <<>>, cap |-> TRUE]
                 ELSE LET rest == CacheFetched(Tail(fetched), key, last_id, CacheAppend(c, key, r),
                                               proc2, total + 1)
                      IN [rest EXCEPT !.log = <<r>> \o @]

\* The next step of the two `for` loops of _cache_new_comments over the live
\* dicts: the next post, the end of the walk, or the RuntimeError of a dict
\* that changed its size during the iteration.
NextCursor(pt) ==
    LET ch == trOrder[pt.ci]
    IN IF Len(trPosts[ch]) # pt.innerLen THEN [to |-> "error"]
       ELSE IF pt.pi < pt.innerLen THEN [to |-> "post", ci |-> pt.ci, pi |-> pt.pi + 1, innerLen |-> pt.innerLen]
       ELSE IF Len(trOrder) # pt.outerLen THEN [to |-> "error"]
       ELSE IF pt.ci < pt.outerLen
            THEN [to |-> "post", ci |-> pt.ci + 1, pi |-> 1, innerLen |-> Len(trPosts[trOrder[pt.ci + 1]])]
            ELSE [to |-> "end"]

\* Lines 121-123 of _tracking_loop, `except Exception`: log, sleep 10 s,
\* back to the test of the `while`.
TrackingExcept == "sleep"

\* ---- iter_messages answers (ok) or raises: the replies are cached, and the
\* ---- walk goes on to the next iter_messages, ends, or is aborted.
FetchBody(ok) ==
    /\ pollTask.pc = "fetch"
    /\ ~pollTask.cancel
    /\ LET ch == trOrder[pollTask.ci]
           key == <<ch, trPosts[ch][pollTask.pi].post>>
           last_id == LastId(processed, key)
           res == IF ok
                  THEN CacheFetched(iter_messages(key, last_id), key, last_id, cache, processed, totalCached)
                  ELSE [cache |-> cache, proc |-> processed, total |-> totalCached, log |-> <<>>, cap |-> FALSE]
           nxt == NextCursor(pollTask)
       IN /\ cache' = res.cache
          /\ totalCached' = res.total
          /\ capHit' = (capHit \/ res.cap)
          /\ appendLog' = appendLog \o [i \in DOMAIN res.log |-> [key |-> key, id |-> res.log[i], hw |-> HighWater(processed, key)]]
          /\ IF ~res.cap /\ nxt.to = "post"
             THEN /\ pollTask' = [pollTask EXCEPT !.ci = nxt.ci, !.pi = nxt.pi, !.innerLen = nxt.innerLen]
                  /\ processed' = WithKey(res.proc, <<trOrder[nxt.ci], trPosts[trOrder[nxt.ci]][nxt.pi].post>>)
                  /\ UNCHANGED <<lockHolder, lockWaiter>>
             ELSE /\ pollTask' = IdlePoll(IF ~res.cap /\ nxt.to = "error" THEN TrackingExcept ELSE "sleep")
                  /\ processed' = res.proc
                  /\ lockHolder' = lockWaiter
                  /\ lockWaiter' = "none"
    /\ UNCHANGED <<trActive, starting, trChannels, trOrder, trPosts, drainer, now, replies, yieldLog,
                   purgedKeys, lastPurge>>

FetchReturn(ok) == UNCHANGED <<outsideTracker, maxCached>> /\ FetchBody(ok)

\* ---- start_tracking() while not active: it suspends in load_channels.
start_tracking ==
    /\ UNCHANGED <<outsideTracker, maxCached>>
    /\ ~trActive
    /\ ~starting
    /\ pollTask.pc = "off"
    /\ starting' = TRUE
    /\ UNCHANGED <<trActive, trChannels, trOrder, trPosts, processed, cache, totalCached, lockHolder,
                   lockWaiter, pollTask, drainer, now, replies, yieldLog, appendLog, purgedKeys, lastPurge, capHit>>

\* ---- load_channels returns: the loop task is created.
StartLoaded(chs) ==
    /\ UNCHANGED <<outsideTracker, maxCached>>
    /\ starting
    /\ starting' = FALSE
    /\ trChannels' = chs
    /\ trActive' = TRUE
    /\ pollTask' = IdlePoll("sleep")
    /\ UNCHANGED <<trOrder, trPosts, processed, cache, totalCached, lockHolder, lockWaiter, drainer, now,
                   replies, yieldLog, appendLog, purgedKeys, lastPurge, capHit>>

\* ---- stop_tracking() while active: the loop task is cancelled.
stop_tracking ==
    /\ UNCHANGED <<outsideTracker, maxCached>>
    /\ trActive
    /\ trActive' = FALSE
    /\ pollTask' = [pollTask EXCEPT !.cancel = TRUE]
    /\ UNCHANGED <<starting, trChannels, trOrder, trPosts, processed, cache, totalCached, lockHolder,
                   lockWaiter, drainer, now, replies, yieldLog, appendLog, purgedKeys, lastPurge, capHit>>

\* ---- the cancelled loop task resumes: CancelledError unwinds it, the lock
\* ---- it holds (or was about to get) is released.
PollCancelled ==
    /\ UNCHANGED <<outsideTracker, maxCached>>
    /\ pollTask.cancel
    /\ pollTask' = IdlePoll("off")
    /\ IF lockHolder = "poll"
       THEN lockHolder' = lockWaiter /\ lockWaiter' = "none"
       ELSE /\ lockHolder' = lockHolder
            /\ lockWaiter' = IF lockWaiter = "poll" THEN "none" ELSE lockWaiter
    /\ purgedKeys' = {}
    /\ UNCHANGED <<trActive, starting, trChannels, trOrder, trPosts, processed, cache, totalCached,
                   drainer, now, replies, yieldLog, appendLog, lastPurge, capHit>>

\* ---- track_message(message) from line 171 on: the post is entered in
\* ---- _tracked_messages with the time of the call.
TrackBody(key) ==
    /\ key[1] \in trChannels
    /\ LET ch == key[1]
           at == {i \in DOMAIN trPosts[ch] : trPosts[ch][i].post = key[2]}
       IN /\ trOrder' = IF ch \in RangeOf(trOrder) THEN trOrder ELSE Append(trOrder, ch)
          /\ trPosts' = [trPosts EXCEPT ![ch] =
                            IF at = {} THEN Append(@, [post |-> key[2], time |-> now])
                            ELSE [i \in DOMAIN @ |-> IF i \in at THEN [@[i] EXCEPT !.time = now] ELSE @[i]]]
          /\ pollTask' = IF at = {} /\ pollTask.pc = "purge_wait"
                         THEN [pollTask EXCEPT !.added = @ + 1] ELSE pollTask
    /\ purgedKeys' = purgedKeys \ {key}
    /\ UNCHANGED <<trActive, starting, trChannels, processed, cache, totalCached, lockHolder, lockWaiter,
                   drainer, now, replies, yieldLog, appendLog, lastPurge, capHit>>

\* ---- track_message(message) for a post of a tracked channel.
track_message(key) ==
    /\ UNCHANGED <<outsideTracker, maxCached>>
    /\ TrackBody(key)

\* How many track_message calls one behaviour of SpecTrackCalls makes.
MaxTracks == 3

\* message.peer_id: a PeerChannel, or a PeerUser / PeerChat.
Peers == {"channel", "user"}

\* A track_message without the check of the peer.
AnyPeer(peer) == TRUE

\* isinstance(message.peer_id, PeerChannel)
IsChannelPeer(peer) == peer = "channel"

\* <<peer id, message.id>> of the messages track_message is called with: the
\* id of a user or chat may equal the id of a channel.
TrackKeys == PostKeys \cup {<<2, 1>>}

\* ---- track_message(message), every branch: False and no change unless the
\* ---- peer is a channel of _tracked_channels.
TrackMessageCall(peer, key) ==
    /\ UNCHANGED <<outsideTrackCalls, maxCached>>
    /\ trackLog.n < MaxTracks
    /\ LET ret == IsChannelPeer(peer) /\ key[1] \in trChannels
       IN /\ IF ret
             THEN TrackBody(key)
             ELSE UNCHANGED <<trActive, starting, trChannels, trOrder, trPosts, processed, cache,
                              totalCached, lockHolder, lockWaiter, pollTask, drainer, now, replies,
                              yieldLog, appendLog, purgedKeys, lastPurge, capHit>>
          /\ trackLog' = [n |-> trackLog.n + 1, peer |-> peer, key |-> key, ret |-> ret]

\* ---- an hour passes.
Tick ==
    /\ UNCHANGED <<outsideTracker, maxCached>>
    /\ now < MaxTime
    /\ now' = now + 1
    /\ UNCHANGED <<trActive, starting, trChannels, trOrder, trPosts, processed, cache, totalCached,
                   lockHolder, lockWaiter, pollTask, drainer, replies, yieldLog, appendLog, purgedKeys,
                   lastPurge, capHit>>

\* ---- somebody replies to a post: the reply gets the next id.
NewReply(key) ==
    /\ UNCHANGED <<outsideTracker, maxCached>>
    /\ Len(replies) < MaxReplies
    /\ replies' = Append(replies, key)
    /\ UNCHANGED <<trActive, starting, trChannels, trOrder, trPosts, processed, cache, totalCached,
                   lockHolder, lockWaiter, pollTask, drainer, now, yieldLog, appendLog, purgedKeys,
                   lastPurge, capHit>>


\* ---------------------------------------------------------------------------
\* The drain: the async generator get_comments and its consumer
\* ---------------------------------------------------------------------------

\* get_comments has the lock (waiter: who waits for it): it walks the cache
\* up to its first yield; an empty cache ends the generator at once.
DrainBegin(no, waiter) ==
    LET todo == SelectSeq(DrainOrder(cache), LAMBDA i : cache[i].replies # <<>>)
    IN IF todo = <<>>
       THEN /\ drainer' = IdleDrain(no - 1)
            /\ lockHolder' = waiter
            /\ lockWaiter' = "none"
            /\ yieldLog' = yieldLog
       ELSE LET list == SortedByDate(cache[Head(todo)].replies)
            IN /\ drainer' = [pc |-> "yielded", no |-> no, key |-> Head(todo), list |-> list,
                              idx |-> 1, rest |-> Tail(todo)]
               /\ lockHolder' = "drain"
               /\ lockWaiter' = waiter
               /\ yieldLog' = Append(yieldLog, [drain |-> no, reply |-> list[1]])

\* ---- the consumer starts a drain: `async for comment in get_comments()`.
DrainStart ==
    /\ UNCHANGED <<outsideTracker, maxCached>>
    /\ drainer.pc = "idle"
    /\ drainer.no < MaxDrains
    /\ IF lockHolder = "none"
       THEN DrainBegin(drainer.no + 1, "none")
       ELSE /\ drainer' = [drainer EXCEPT !.pc = "wait", !.no = @ + 1]
            /\ lockWaiter' = "drain"
            /\ UNCHANGED <<lockHolder, yieldLog>>
    /\ UNCHANGED <<trActive, starting, trChannels, trOrder, trPosts, processed, cache, totalCached,
                   pollTask, now, replies, appendLog, purgedKeys, lastPurge, capHit>>

\* ---- get_comments gets the lock it waited for.
DrainResume ==
    /\ UNCHANGED <<outsideTracker, maxCached>>
    /\ drainer.pc = "wait"
    /\ lockHolder = "drain"
    /\ DrainBegin(drainer.no, lockWaiter)
    /\ UNCHANGED <<trActive, starting, trChannels, trOrder, trPosts, processed, cache, totalCached,
                   pollTask, now, replies, appendLog, purgedKeys, lastPurge, capHit>>

\* ---- the consumer asks for the next reply: the generator resumes after its
\* ---- yield, counts the reply off, and runs to its next yield or to its end.
DrainNext ==
    /\ UNCHANGED <<outsideTracker, maxCached>>
    /\ drainer.pc = "yielded"
    /\ totalCached' = totalCached - 1
    /\ IF drainer.idx < Len(drainer.list)
       THEN /\ drainer' = [drainer EXCEPT !.idx = @ + 1]
            /\ yieldLog' = Append(yieldLog, [drain |-> drainer.no, reply |-> drainer.list[drainer.idx + 1]])
            /\ UNCHANGED <<cache, lockHolder, lockWaiter>>
       ELSE /\ cache' = [cache EXCEPT ![drainer.key].replies = <<>>]
            /\ IF drainer.rest # <<>>
               THEN LET list == SortedByDate(cache[Head(drainer.rest)].replies)
                    IN /\ drainer' = [drainer EXCEPT !.key = Head(drainer.rest), !.list = list, !.idx = 1,
                                                     !.rest = Tail(drainer.rest)]
                       /\ yieldLog' = Append(yieldLog, [drain |-> drainer.no, reply |-> list[1]])
                       /\ UNCHANGED <<lockHolder, lockWaiter>>
               ELSE /\ drainer' = IdleDrain(drainer.no)
                    /\ lockHolder' = lockWaiter
                    /\ lockWaiter' = "none"
                    /\ yieldLog' = yieldLog
    /\ UNCHANGED <<trActive, starting, trChannels, trOrder, trPosts, processed, pollTask, now, replies,
                   appendLog, purgedKeys, lastPurge, capHit>>

\* ---- the consumer leaves its loop: the generator is closed at its yield
\* ---- (GeneratorExit), which releases the lock and runs nothing else.
DrainAbandon ==
    /\ UNCHANGED <<outsideTracker, maxCached>>
    /\ drainer.pc = "yielded"
    /\ drainer' = IdleDrain(drainer.no)
    /\ lockHolder' = lockWaiter
    /\ lockWaiter' = "none"
    /\ UNCHANGED <<trActive, starting, trChannels, trOrder, trPosts, processed, cache, totalCached,
                   pollTask, now, replies, yieldLog, appendLog, purgedKeys, lastPurge, capHit>>

NextTracker ==
    \/ start_tracking
    \/ \E chs \in LoadResults : StartLoaded(chs)
    \/ stop_tracking
    \/ PollCancelled
    \/ PollCycle
    \/ PollPurgeResume
    \/ PollCacheResume
    \/ \E ok \in BOOLEAN : FetchReturn(ok)
    \/ \E key \in PostKeys : track_message(key)
    \/ Tick
    \/ \E key \in PostKeys : NewReply(key)
    \/ DrainStart
    \/ DrainResume
    \/ DrainNext
    \/ DrainAbandon

SpecTracker == Init /\ [][NextTracker]_vars


SeenIds == UNION {processed[key] : key \in DOMAIN processed}

\* C6: get_cached_count() never exceeds max_cached, and when it equals
\* max_cached a step of the poll cycle that discovers a further reply leaves
\* get_cached_count() as it is and the cache as it is (nothing is evicted).
C6_CacheHardCap ==
    [][/\ get_cached_count <= maxCached
       /\ totalCached' <= maxCached
       /\ (get_cached_count = maxCached /\ SeenIds' # SeenIds)
              => (totalCached' = totalCached /\ cache' = cache)]_vars

\* C6 happens: the cache is at its cap, holding max_cached replies, and a
\* poll cycle has discovered a further reply.
C6_Witness == capHit /\ get_cached_count = maxCached /\ CachedReplies(cache) = maxCached

\* C7: once a poll cycle that purged a post is over, neither the cache nor
\* the seen-id sets hold an entry for the purged post.  (The claim as stated;
\* the cycle pops the cache of a channel only when no post of the channel is
\* left, and never touches the seen-id sets.)
C7_PurgeDiscardsReplies ==
    pollTask.pc = "sleep" =>
        \A key \in purgedKeys : CacheIndex(cache, key) = {} /\ key \notin DOMAIN processed

C9_ReplyAppendedOnce ==
    \A i \in DOMAIN appendLog :
        /\ appendLog[i].id > appendLog[i].hw
        /\ \A j \in DOMAIN appendLog :
               (appendLog[j].key = appendLog[i].key /\ appendLog[j].id = appendLog[i].id) => j = i

\* C9 happens: a later poll of a post that had seen replies appended a new one.
C9_Witness ==
    \E i, j \in DOMAIN appendLog :
        i < j /\ appendLog[i].key = appendLog[j].key /\ appendLog[j].hw >= appendLog[i].id

\* C10: a reply yielded by one drain is not yielded by a later drain, whether
\* the earlier drain ran to its end or was abandoned.  (The claim as stated;
\* get_comments empties the list of a post only after the last reply of the
\* post, so an abandoned drain leaves what it yielded in the cache.)
C10_YieldedOnce ==
    \A i, j \in DOMAIN yieldLog :
        (i < j /\ yieldLog[i].reply = yieldLog[j].reply) => yieldLog[i].drain = yieldLog[j].drain


\* A tracker constructed with room for one reply more, tracking started once
\* and never stopped, the clock standing still.
InitRoomy ==
    InitStore /\ InitStorage /\ InitMonitor /\ TrackerConstructed /\ maxCached = MaxCached + 1 /\ InitLifecycle
    /\ InitBootstrap /\ InitConvert /\ InitLoops /\ InitService

NextRoomy ==
    \/ start_tracking
    \/ \E chs \in LoadResults : StartLoaded(chs)
    \/ PollCycle
    \/ PollCacheResume
    \/ \E ok \in BOOLEAN : FetchReturn(ok)
    \/ \E key \in PostKeys : track_message(key)
    \/ \E key \in PostKeys : NewReply(key)
    \/ DrainStart
    \/ DrainResume
    \/ DrainNext
    \/ DrainAbandon

SpecTrackerRoomy == InitRoomy /\ [][NextRoomy]_vars

\* Tracking started once and never stopped, the clock standing still, nobody
\* draining; track_message called with any message.
NextTrackCalls ==
    \/ start_tracking
    \/ \E chs \in LoadResults : StartLoaded(chs)
    \/ PollCycle
    \/ \E ok \in BOOLEAN : FetchReturn(ok)
    \/ \E peer \in Peers : \E key \in TrackKeys : TrackMessageCall(peer, key)
    \/ \E key \in PostKeys : NewReply(key)

SpecTrackCalls == Init /\ [][NextTrackCalls]_vars

\* The posts of _tracked_messages.
TrackedPosts(tp) == UNION {{<<ch, tp[ch][i].post>> : i \in DOMAIN tp[ch]} : ch \in Channels}

\* C28: track_message adds a post to the tracked set only when the message's
\* peer is a channel whose id is in the tracked-channel list, and then returns
\* True; in every other case it returns False and leaves the tracked posts,
\* the seen-id sets and the cache unchanged.  No other step adds a post.
C28_TrackOnlyTrackedChannel ==
    [][ /\ (trackLog' # trackLog)
            => /\ trackLog'.ret = (trackLog'.peer = "channel" /\ trackLog'.key[1] \in trChannels)
               /\ trackLog'.ret => trackLog'.key \in TrackedPosts(trPosts')
               /\ ~trackLog'.ret => UNCHANGED <<trPosts, trOrder, processed, cache, totalCached>>
        /\ (TrackedPosts(trPosts') \ TrackedPosts(trPosts) # {})
            => /\ trackLog' # trackLog
               /\ trackLog'.ret
               /\ TrackedPosts(trPosts') \ TrackedPosts(trPosts) = {trackLog'.key}
      ]_vars

\* C28 witness: with a post tracked, a reply seen and cached, track_message
\* was called with a message of a user whose id equals a tracked channel's id
\* and returned False.
C28_Witness ==
    /\ trackLog.n >= 1
    /\ trackLog.peer = "user"
    /\ trackLog.key[1] \in trChannels
    /\ ~trackLog.ret
    /\ TrackedPosts(trPosts) # {}
    /\ cache # <<>>
    /\ totalCached > 0
    /\ DOMAIN processed # {}


\* C11: of two replies yielded by the same drain, the one yielded first has a
\* date not later than the other, whatever posts they answer.  (The claim as
\* stated; get_comments sorts the replies of each post on their own and walks
\* the posts in the order the cache got them.)
C11_DrainAscendingDates ==
    \A i, j \in DOMAIN yieldLog :
        (i < j /\ yieldLog[i].drain = yieldLog[j].drain)
            => DateOf(yieldLog[i].reply) <= DateOf(yieldLog[j].reply)


\* C12: save_message returns True exactly when every query it issued for the
\* message succeeded, for a message of every content kind.  (The claim as
\* stated; the audio handler reads the id of the new row from a result that
\* execute_query never gives for an INSERT, and reports failure.)
C12_TrueIffAllQueriesSucceeded ==
    \A i \in DOMAIN saveLog : saveLog[i].ret <=> saveLog[i].clean


(***************************************************************************)
(* PART 5.  CommentTracker.start_tracking and stop_tracking called by      *)
(* several tasks of one event loop.  A step runs one task from one         *)
(* suspension point to the next: start_tracking suspends in load_channels  *)
(* when the channels file names a channel, stop_tracking suspends awaiting *)
(* the task it cancelled, the loop suspends inside a poll cycle and in its *)
(* sleep between two cycles.                                               *)
(***************************************************************************)

\* The task is created and has neither returned nor been cancelled.
LoopAlive(t) == lcLoops[t] \in {"sleep", "cycle"} /\ ~lcCancel[t]

LoopsCreated == {t \in LoopIds : lcLoops[t] # "none"}

Loading == {c \in Callers : lcCalls[c] = "loading"}

\* asyncio.create_task(self._tracking_loop()): the task waits for its first run.
CreateLoop ==
    LET t == CHOOSE u \in LoopIds : lcLoops[u] = "none" /\ \A v \in LoopIds : lcLoops[v] = "none" => u <= v
    IN  /\ lcActive' = TRUE
        /\ lcTaskRef' = t
        /\ lcLoops' = [lcLoops EXCEPT ![t] = "sleep"]

\* A stop_tracking that is awaiting its task learns that start_tracking was called.
NoteStart(calls) ==
    [c \in Callers |-> IF calls[c] = "stopping" THEN "stopping_restarted" ELSE calls[c]]

\* start_tracking up to its first suspension: it returns when _is_active is
\* set, else it loads the channels, and goes on at once when load_channels
\* does not suspend.
StartTrackingCall(c) ==
    /\ lcCalls[c] = "idle"
    /\ quiet' = FALSE
    /\ IF lcActive
       THEN /\ lcCalls' = NoteStart(lcCalls)
            /\ UNCHANGED <<lcActive, lcTaskRef, lcLoops>>
       ELSE /\ Cardinality(LoopsCreated) + Cardinality(Loading) < MaxLoops
            /\ IF lcFile
               THEN /\ lcCalls' = [NoteStart(lcCalls) EXCEPT ![c] = "loading"]
                    /\ UNCHANGED <<lcActive, lcTaskRef, lcLoops>>
               ELSE /\ lcCalls' = NoteStart(lcCalls)
                    /\ CreateLoop
    /\ UNCHANGED <<lcFile, lcCancel, lcTarget, ranQuiet>>
    /\ UNCHANGED outsideLifecycle

\* load_channels has returned: lines 97 to 100, with no second look at _is_active.
StartTrackingLoaded(c) ==
    /\ lcCalls[c] = "loading"
    /\ lcCalls' = [lcCalls EXCEPT ![c] = "idle"]
    /\ CreateLoop
    /\ UNCHANGED <<lcFile, lcCancel, lcTarget, quiet, ranQuiet>>
    /\ UNCHANGED outsideLifecycle

\* stop_tracking up to its await: it returns when _is_active is not set, else
\* it clears it, cancels _background_task and awaits it; awaiting a task that
\* is done does not suspend.
StopTrackingCall(c) ==
    /\ lcCalls[c] = "idle"
    /\ IF ~lcActive
       THEN UNCHANGED <<lcActive, lcCancel, lcCalls, lcTarget, quiet>>
       ELSE /\ lcActive' = FALSE
            /\ IF lcTaskRef # 0 /\ lcLoops[lcTaskRef] \in {"sleep", "cycle"}
               THEN /\ lcCancel' = [lcCancel EXCEPT ![lcTaskRef] = TRUE]
                    /\ lcCalls' = [lcCalls EXCEPT ![c] = "stopping"]
                    /\ lcTarget' = [lcTarget EXCEPT ![c] = lcTaskRef]
                    /\ UNCHANGED quiet
               ELSE /\ quiet' = (Loading = {})
                    /\ UNCHANGED <<lcCancel, lcCalls, lcTarget>>
    /\ UNCHANGED <<lcFile, lcTaskRef, lcLoops, ranQuiet>>
    /\ UNCHANGED outsideLifecycle

\* The awaited task is done: stop_tracking returns.
StopTrackingReturn(c) ==
    /\ lcCalls[c] \in {"stopping", "stopping_restarted"}
    /\ lcLoops[lcTarget[c]] = "done"
    /\ lcCalls' = [lcCalls EXCEPT ![c] = "idle"]
    /\ lcTarget' = [lcTarget EXCEPT ![c] = 0]
    /\ quiet' = (quiet \/ (lcCalls[c] = "stopping" /\ Loading = {} /\ ~lcActive))
    /\ UNCHANGED <<lcFile, lcActive, lcTaskRef, lcLoops, lcCancel, ranQuiet>>
    /\ UNCHANGED outsideLifecycle

\* _tracking_loop runs for the first time or wakes from its sleep: it tests
\* _is_active and either returns or runs a poll cycle up to the first
\* suspension of the cycle, or through the cycle into the next sleep.
LoopWake(t, suspends) ==
    /\ lcLoops[t] = "sleep"
    /\ ~lcCancel[t]
    /\ IF lcActive
       THEN /\ lcLoops' = [lcLoops EXCEPT ![t] = IF suspends THEN "cycle" ELSE "sleep"]
            /\ ranQuiet' = (ranQuiet \/ quiet)
       ELSE /\ lcLoops' = [lcLoops EXCEPT ![t] = "done"]
            /\ UNCHANGED ranQuiet
    /\ UNCHANGED <<lcFile, lcActive, lcTaskRef, lcCancel, lcCalls, lcTarget, quiet>>
    /\ UNCHANGED outsideLifecycle

\* A poll cycle goes on from a suspension: to its next suspension, or to its
\* end and into the sleep of line 120 or line 123.
LoopStep(t, suspends) ==
    /\ lcLoops[t] = "cycle"
    /\ ~lcCancel[t]
    /\ lcLoops' = [lcLoops EXCEPT ![t] = IF suspends THEN "cycle" ELSE "sleep"]
    /\ ranQuiet' = (ranQuiet \/ quiet)
    /\ UNCHANGED <<lcFile, lcActive, lcTaskRef, lcCancel, lcCalls, lcTarget, quiet>>
    /\ UNCHANGED outsideLifecycle

\* CancelledError is raised in the cancelled task where it is suspended; it is
\* no Exception, so line 121 does not catch it and the task ends.
LoopCancelled(t) ==
    /\ lcCancel[t]
    /\ lcLoops[t] \in {"sleep", "cycle"}
    /\ lcLoops' = [lcLoops EXCEPT ![t] = "done"]
    /\ lcCancel' = [lcCancel EXCEPT ![t] = FALSE]
    /\ UNCHANGED <<lcFile, lcActive, lcTaskRef, lcCalls, lcTarget, quiet, ranQuiet>>
    /\ UNCHANGED outsideLifecycle

NextLifecycle ==
    \/ \E c \in Callers : StartTrackingCall(c)
    \/ \E c \in Callers : StartTrackingLoaded(c)
    \/ \E c \in Callers : StopTrackingCall(c)
    \/ \E c \in Callers : StopTrackingReturn(c)
    \/ \E t \in LoopIds : \E suspends \in BOOLEAN : LoopWake(t, suspends)
    \/ \E t \in LoopIds : \E suspends \in BOOLEAN : LoopStep(t, suspends)
    \/ \E t \in LoopIds : LoopCancelled(t)

\* The tracker as constructed, with or without a channels file to load.
InitCallers ==
    /\ InitStore /\ InitStorage /\ InitMonitor /\ InitTracker
    /\ LifecycleConstructed
    /\ lcFile \in BOOLEAN
    /\ InitBootstrap /\ InitConvert /\ InitLoops /\ InitService

SpecLifecycle == InitCallers /\ [][NextLifecycle]_vars

\* C13: at any time at most one tracking-loop task is alive, whatever the
\* interleaving of the start_tracking calls.  (The claim as stated;
\* start_tracking tests _is_active before it awaits load_channels and sets it
\* after, so two calls suspended in load_channels each create a task.)
C13_AtMostOneLoopAlive == Cardinality({t \in LoopIds : LoopAlive(t)}) <= 1

\* C14: after a stop_tracking that was called while tracking was active has
\* returned, with no start_tracking call in progress or finished meanwhile, no
\* poll cycle runs until start_tracking is called again.  (The
\* claim as stated; stop_tracking cancels and awaits the task _background_task
\* refers to, the one created last.)
C14_NoPollAfterStop == ~ranQuiet


\* No stop_monitor call is in progress and the monitor is not running.
MonitorStopped == ~monRunning /\ stopAwait = {}

\* No db_writer task exists that has not finished.
NoWriterLeft == \A t \in Tasks : wt[t] \in {"none", "done"}

\* C15: once stop_monitor has returned and until start_monitor is called, the
\* db_writer task has finished, so that no save_message is in progress or can
\* start; start_monitor called while running and stop_monitor called while
\* stopped change nothing.
C15_StopLeavesNoWriter ==
    [][ /\ MonitorStopped' => NoWriterLeft'
        /\ (monRunning /\ start_monitor) => UNCHANGED vars
        /\ (~monRunning /\ stop_monitor) => UNCHANGED vars ]_vars

\* C15 happens: a writer that was started has been stopped, and a message was
\* saved before.
C15_Witness == MonitorStopped /\ (\E t \in Tasks : wt[t] = "done") /\ saveLog # <<>>


(***************************************************************************)
(* PART 6.  DatabaseCreator.initialize_database.  The database answers the *)
(* SELECT of _table_exists truthfully unless the query fails, and executes *)
(* a CREATE unless the query fails or the table refers to a table the      *)
(* database does not have.                                                  *)
(***************************************************************************)

\* remaining_tables.remove(name)
ListRemove(l, name) == SelectSeq(l, LAMBDA x : x # name)

InList(l, name) == \E i \in DOMAIN l : l[i] = name

\* A table list whose dependency test is always passed.
DepsMetAlways(t) == TRUE

\* all(dep in created_tables for dep in table["deps"])
DepsMet(t) == \A dep \in Deps(t) : dep \in created_tables

\* await self.db.connect(), outside the try: a failure reaches the caller.
BootConnect(ok) ==
    /\ bpc = "new"
    /\ IF ok
       THEN /\ bpc' = "pass"
            /\ created_tables' = {}
            /\ remaining_tables' = creation_order
            /\ made_progress' = FALSE
            /\ bidx' = 1
            /\ UNCHANGED outcome
       ELSE /\ bpc' = "end"
            /\ outcome' = "raised"
            /\ UNCHANGED <<created_tables, remaining_tables, made_progress, bidx>>
    /\ UNCHANGED <<creation_order, dbTables, reported, createLog>>
    /\ UNCHANGED outsideBootstrap

\* One turn of the for loop, and after the last table of the list the end of
\* the pass: the break of line 51, the end of the while loop, or a new pass.
BootVisit(selectOk, createOk) ==
    /\ bpc = "pass"
    /\ LET t       == creation_order[bidx]
           visit   == InList(remaining_tables, t) /\ DepsMet(t)
           found   == selectOk /\ t \in dbTables
           issue   == visit /\ ~found
           success == createOk /\ Deps(t) \subseteq dbTables
           done    == visit /\ (found \/ success)
           rem     == IF done THEN ListRemove(remaining_tables, t) ELSE remaining_tables
           prog    == made_progress \/ done
       IN  /\ createLog' = IF issue THEN Append(createLog, [table |-> t, db |-> dbTables]) ELSE createLog
           /\ dbTables' = IF issue /\ success THEN dbTables \cup {t} ELSE dbTables
           /\ created_tables' = IF done THEN created_tables \cup {t} ELSE created_tables
           /\ remaining_tables' = rem
           /\ IF bidx < Len(creation_order)
              THEN /\ bidx' = bidx + 1
                   /\ made_progress' = prog
                   /\ UNCHANGED <<bpc, reported>>
              ELSE IF ~prog
                   THEN /\ reported' = rem
                        /\ bpc' = "closing"
                        /\ made_progress' = prog
                        /\ UNCHANGED bidx
                   ELSE IF rem = <<>>
                        THEN /\ bpc' = "closing"
                             /\ made_progress' = prog
                             /\ UNCHANGED <<bidx, reported>>
                        ELSE /\ bidx' = 1
                             /\ made_progress' = FALSE
                             /\ UNCHANGED <<bpc, reported>>
    /\ UNCHANGED <<creation_order, outcome>>
    /\ UNCHANGED outsideBootstrap

\* finally: await self.db.disconnect(); the function returns None.
BootReturn ==
    /\ bpc = "closing"
    /\ bpc' = "end"
    /\ outcome' = "returned"
    /\ UNCHANGED <<creation_order, dbTables, created_tables, remaining_tables, made_progress, bidx,
                   reported, createLog>>
    /\ UNCHANGED outsideBootstrap

NextBootstrap ==
    \/ \E ok \in BOOLEAN : BootConnect(ok)
    \/ \E selectOk, createOk \in BOOLEAN : BootVisit(selectOk, createOk)
    \/ BootReturn

\* Any ordering of the table list, on a database that has any of the tables.
InitOrderings ==
    /\ InitStore /\ InitStorage /\ InitMonitor /\ InitTracker /\ InitLifecycle
    /\ BootConstructed
    /\ creation_order \in Orderings
    /\ dbTables \in SUBSET TableNames
    /\ InitConvert /\ InitLoops /\ InitService

SpecBootstrap == InitOrderings /\ [][NextBootstrap]_vars

PlaceOf(t) == CHOOSE i \in DOMAIN creation_order : creation_order[i] = t

\* C16: whatever the ordering of the table list, when the CREATE of a table is
\* issued the database has every table it depends on.
C16_CreateAfterDeps ==
    \A i \in DOMAIN createLog : Deps(createLog[i].table) \subseteq createLog[i].db

\* C16 happens: message_contents stands before messages in the list, messages
\* before users, and the CREATE of message_contents has been issued.
C16_Witness ==
    /\ PlaceOf("message_contents") < PlaceOf("messages")
    /\ PlaceOf("messages") < PlaceOf("users")
    /\ \E i \in DOMAIN createLog : createLog[i].table = "message_contents"

\* C17: when a pass creates nothing while tables remain, initialize_database
\* ends with a failure that its caller observes.  (The claim as stated; line
\* 51 leaves the loop with break and the function returns None.)
C17_StallFails == (bpc = "end" /\ reported # NoReport) => outcome = "raised"


\* C18: the buffer never holds more than max_size events, and an add_message
\* on a full buffer drops the oldest buffered event and keeps the others, in
\* their order, followed by the new one.
C18_BoundedDropsOldest ==
    [][ /\ Len(queue') <= MaxSize
        /\ (Len(events') > Len(events) /\ LockFree /\ Len(queue) = MaxSize)
               => queue' = Tail(queue) \o <<Len(events')>> ]_vars

\* C18 happens: an add_message on a full buffer has dropped an event.
C18_Witness == dropLog # <<>> /\ Len(queue) = MaxSize


\* C19: events leave the buffer in arrival order: the event a call of
\* wait_for_message takes from a buffer of several is the oldest of them.
\* (The claim as stated; line 111 takes self._queue[-1], the newest.)
C19_OldestLeavesFirst ==
    [][ \A w \in Waiters :
          (wpc[w] = "woken" /\ wpc'[w] # "woken" /\ LockFree /\ Len(queue) > 1)
              => queue' = Tail(queue) ]_vars

\* C20: a batch that wait_for_message returns for a group holds only events
\* of that group, and the events of another or of no group that were buffered
\* stay buffered and outside the batch.
C20_BatchOnlyOwnGroup ==
    [][ \A w \in Waiters :
          (wresult'[w].kind = "batch" /\ wresult'[w] # wresult[w])
              => LET items == wresult'[w].items
                     G == events[items[1]]
                 IN /\ \A i \in DOMAIN items : events[items[i]] = G
                    /\ \A e \in RangeOf(queue) :
                          events[e] # G => (e \in RangeOf(queue') /\ e \notin RangeOf(items)) ]_vars

\* C20 happens: a batch has been returned while an event of another group,
\* added before the first event of the batch, is buffered.
C20_Witness ==
    \E w \in Waiters :
        /\ wresult[w].kind = "batch"
        /\ \E e \in RangeOf(queue) :
              e < wresult[w].items[1] /\ events[e] # events[wresult[w].items[1]]


\* The save_message calls made for key k before load number i.
SavesBefore(i, k) == {j \in 1..loadLog[i].saves : Key(saveLog[j].msg) = k}

\* C21: a message for which save_message wrote content of some kind is read
\* back: load_message returns a message, and for each kind written its
\* contents hold an item of that kind with the fields of a row written.  (The
\* claim as stated; the photo and audio handlers have no load_content.)
C21_SavedKindsReadBack ==
    \A i \in DOMAIN loadLog :
        \A kind \in loadLog[i].stored :
            /\ loadLog[i].result.found
            /\ \E c \in loadLog[i].result.contents :
                  /\ c.kind = kind
                  /\ \E r \in loadLog[i].rows :
                        /\ <<r.message_id, r.chat_id>> = loadLog[i].key
                        /\ r.content_type = kind
                        /\ r.text_content = c.text /\ r.file_id = c.file_id /\ r.caption = c.caption

\* C22: when every save of a key was a successful save of a message whose only
\* content is one text item, load_message after the save of the message with
\* text t returns exactly one content item, a text item with text t, however
\* many saves there were.  (The claim as stated; every save inserts a row, and
\* load_content reads the text of the row the database returns first.)
C22_TextRoundTrip ==
    \A i \in DOMAIN loadLog :
        LET k == loadLog[i].key
            js == SavesBefore(i, k)
        IN (/\ js # {}
            /\ \A j \in js : /\ saveLog[j].ret
                             /\ Len(saveLog[j].msg.contents) = 1
                             /\ saveLog[j].msg.contents[1].kind = "text")
           => LET last == CHOOSE j \in js : \A j2 \in js : j2 <= j
              IN /\ loadLog[i].result.found
                 /\ loadLog[i].result.contents = {TextItem(saveLog[last].msg.contents[1].text)}


\* C26: when save_message is repeated for an existing (message_id, chat_id),
\* the columns text, edit_date, views and forwards take the new value if it is
\* non-null and keep the stored value otherwise, and every other column of
\* the messages row (here user_id and date) keeps the value written by the
\* first save.  A save in which a query raises leaves each of the four
\* columns either as stored or as merged.
C26_MetadataCoalesced ==
    [][ \A k \in DOMAIN db.messages :
          LET old == db.messages[k]
              new == db'.messages[k]
              m == saveLog'[Len(saveLog')].msg
              clean == saveLog'[Len(saveLog')].clean
          IN /\ k \in DOMAIN db'.messages
             /\ new.user_id = old.user_id
             /\ new.date = old.date
             /\ (Len(saveLog') = Len(saveLog) + 1 /\ Key(m) = k)
                  => LET merged == [old EXCEPT
                                      !.text = IF m.text # NULL THEN m.text ELSE old.text,
                                      !.edit_date = IF m.edit_date # NULLI THEN m.edit_date ELSE old.edit_date,
                                      !.views = IF m.views # NULLI THEN m.views ELSE old.views,
                                      !.forwards = IF m.forwards # NULLI THEN m.forwards ELSE old.forwards]
                     IN IF clean THEN new = merged ELSE new \in {old, merged}
             /\ (Len(saveLog') = Len(saveLog) + 1 /\ Key(m) # k) => new = old
      ]_vars

\* C26 witness: the message of key (1, 1) was saved with text, user and date
\* and no views, then saved again with views, edit date and forwards, another
\* date, no user and no text: the row holds the first text, user and date and
\* the second views, edit date and forwards.
C26_Witness ==
    /\ Len(saveLog) = 2
    /\ saveLog[1].clean /\ saveLog[2].clean
    /\ Key(saveLog[1].msg) = <<1, 1>> /\ Key(saveLog[2].msg) = <<1, 1>>
    /\ saveLog[1].msg.text = "hello" /\ saveLog[1].msg.views = NULLI
    /\ saveLog[2].msg.text = NULL /\ saveLog[2].msg.views = 3 /\ saveLog[2].msg.date = 11
    /\ db.messages[<<1, 1>>] = [user_id |-> 5, text |-> "hello", views |-> 3, date |-> 10,
                                edit_date |-> 12, forwards |-> 2]


\* The place of a step in the order of save_message.
Rank(st) ==
    CASE st.step = "chat" -> 1
      [] st.step = "user" -> 2
      [] st.step = "metadata" -> 3
      [] st.step = "content" -> 3 + st.item

ExpectedRanks(m) ==
    {1, 3} \cup (IF m.user_id # NULLI /\ m.user_id # 0 THEN {2} ELSE {})
           \cup {3 + i : i \in DOMAIN m.contents}

\* C29: save_message issues its queries in the order chat upsert, user upsert
\* (only when user_id is set), metadata upsert, content writes in contents
\* order, skipping no step before the last one issued; when a query fails it
\* is the last query issued and the call returns False; a call that returns
\* True has gone through every step.
C29_OrderAndShortCircuit ==
    \A j \in DOMAIN saveLog :
        LET L == saveLog[j].queries
            m == saveLog[j].msg
            ranks == {Rank(L[a]) : a \in DOMAIN L}
        IN /\ L # <<>>
           /\ \A a, b \in DOMAIN L : a < b => Rank(L[a]) <= Rank(L[b])
           /\ ranks = {r \in ExpectedRanks(m) : \E a \in DOMAIN L : r <= Rank(L[a])}
           /\ saveLog[j].fail # 0 => (Len(L) = saveLog[j].fail /\ ~saveLog[j].ret)
           /\ saveLog[j].ret => ranks = ExpectedRanks(m)

\* C29 witness: a save of a message with a user and two content items in
\* which the metadata upsert failed: chat, user and metadata were issued, no
\* content query, and the call returned False.
C29_Witness ==
    \E j \in DOMAIN saveLog :
        /\ Len(saveLog[j].msg.contents) = 2
        /\ saveLog[j].msg.user_id = 5
        /\ saveLog[j].fail = 3
        /\ saveLog[j].queries = <<Step("chat", 0), Step("user", 0), Step("metadata", 0)>>
        /\ ~saveLog[j].ret


\* C31: in every state in which no drain is under way, get_cached_count()
\* equals the number of replies stored in _new_comments_cache, and
\* has_new_comments() is true exactly when that number is positive.  (The
\* claim as stated, for the states between drains; a purge pops a channel's
\* replies and an abandoned drain keeps them, without counting them off or on.)
C31_CountMatchesCache ==
    drainer.pc = "idle"
    => /\ get_cached_count = CachedReplies(cache)
       /\ has_new_comments <=> (get_cached_count > 0)

\* C32: every read-modify-write of the tracker's shared collections is done
\* while holding _cache_lock: while a poll cycle holds the lock and is
\* suspended inside the walk of _cache_new_comments, no step changes
\* _tracked_messages.  (The claim as stated; track_message takes no lock.)
C32_NoMutationDuringWalk ==
    [][ (pollTask.pc = "fetch" /\ lockHolder = "poll")
            => (trPosts' = trPosts /\ trOrder' = trOrder) ]_vars

\* C33: a wait_for_message call clears the new-message event only in states
\* where the queue is empty and no other waiter is pending: a step of a
\* waiter that clears the event leaves no event buffered and no call counted
\* in _waiters.  (The claim as stated; the `finally` looks at _waiters only,
\* line 108 at the queue only.)
C33_ClearedOnlyWhenIdle ==
    [][ (ev /\ ~ev' /\ wpc' # wpc) => (queue' = <<>> /\ waiters' = 0) ]_vars

\* C34: across any sequence of start_monitor / stop_monitor calls at most one
\* new-message handler registration is active, and none while the monitor is
\* stopped; no delivered event is put on the processed queue twice.  (The
\* claim as stated; stop_monitor does not remove the handler and every
\* start_monitor adds it once more.)
C34_OneRegistrationWhileRunning ==
    /\ handlerRegs <= 1
    /\ ~monRunning => handlerRegs = 0
    /\ \A i, j \in DOMAIN enqLog : i < j => enqLog[i] # enqLog[j]

\* C35: as long as the cache cap is not reached, no reply to a watched post
\* is skipped: a reply at or below the post's high-water mark has been
\* appended to the cache (a reply above it is still to be fetched), also when
\* more replies than the fetch limit arrived since the previous poll.  (The
\* claim as stated; the newest `limit` replies raise the mark over the older
\* ones, which min_id then keeps out of every later fetch.)
C35_NoReplySkipped ==
    ~capHit =>
        \A r \in DOMAIN replies :
            r <= HighWater(processed, replies[r])
            => \E i \in DOMAIN appendLog : appendLog[i].id = r /\ appendLog[i].key = replies[r]

C37_OnePhotoOneVideoRow ==
    \A k \in Keys : ContentRows(k, "photo") <= 1 /\ ContentRows(k, "video") <= 1

(***************************************************************************)
(*       The two background loops side by side: specification SpecLoops    *)
(***************************************************************************)

\* ---- FetchReturn, noting the RuntimeError of the walk that _tracking_loop
\* ---- catches at line 121.
TrackingLoopFetch(ok) ==
    /\ UNCHANGED <<outsideTrackingLoop, maxCached>>
    /\ FetchBody(ok)
    /\ excLog' = IF pollTask'.pc = "fetch" \/ NextCursor(pollTask).to # "error" \/ capHit' # capHit
                 THEN excLog
                 ELSE Append(excLog, [loop |-> "tracking", t |-> 0])

\* ---- WriterConnectError, noting the exception caught at line 106.
WriterTaskError(t) ==
    /\ UNCHANGED outsideWriterTask
    /\ ConnectErrorBody(t)
    /\ excLog' = Append(excLog, [loop |-> "writer", t |-> t])

NextLoops ==
    \/ start_tracking
    \/ \E chs \in LoadResults : StartLoaded(chs)
    \/ stop_tracking
    \/ PollCancelled
    \/ PollCycle
    \/ \E ok \in BOOLEAN : TrackingLoopFetch(ok)
    \/ \E key \in PostKeys : track_message(key)
    \/ start_monitor
    \/ \E c \in ChatIds, h \in BOOLEAN : Deliver(c, h)
    \/ \E e \in DOMAIN delivered, r \in 1..MaxStarts : FinishConvert(e, r)
    \/ \E t \in Tasks : WriterGet(t)
    \/ \E t \in Tasks, fail \in 0..3 : WriterSave(t, fail)
    \/ \E t \in Tasks : WriterTaskError(t)

SpecLoops == Init /\ [][NextLoops]_vars

\* C38: an exception raised inside one iteration of _tracking_loop or of
\* _database_writer_task is caught: the step that raises leaves the task in
\* its loop (asleep, the lock released; at get_processed_message), it does
\* not end it, and a task that has caught an exception is off or done only
\* after its component was stopped.
C38_LoopSurvivesException ==
    [][ /\ (Len(excLog') > Len(excLog) /\ excLog'[Len(excLog')].loop = "tracking")
            => (pollTask'.pc = "sleep" /\ lockHolder' # "poll")
        /\ \A t \in Tasks :
            (Len(excLog') > Len(excLog) /\ excLog'[Len(excLog')] = [loop |-> "writer", t |-> t])
            => wt'[t] = "get"
        /\ (trActive' /\ excLog' # <<>>) => pollTask'.pc # "off"
        /\ \A i \in DOMAIN excLog' :
            (excLog'[i].loop = "writer" /\ monRunning') => wt'[excLog'[i].t] \in {"get", "save"} ]_vars

\* C38 witness: each loop has caught an exception and is in a later iteration:
\* the tracker's walk is fetching again, the writer holds the next message.
C38_Witness ==
    /\ \E i \in DOMAIN excLog : excLog[i].loop = "tracking"
    /\ trActive /\ pollTask.pc = "fetch"
    /\ \E i \in DOMAIN excLog : excLog[i].loop = "writer" /\ wt[excLog[i].t] = "save"
    /\ monRunning

(***************************************************************************)
(*              PART 8: TelegramService (telegram/connect.py)              *)
(***************************************************************************)

\* asyncio.Lock.acquire returns at once only when the lock is free and
\* nobody is queued for it; the lock is not reentrant.
SvcLockFree == svLock = 0 /\ svLockQ = <<>>

\* A method returns `ret` and its `async with self._lock` releases the lock.
SvcReturn(c, ret, client, running, lq) ==
    /\ svRet' = [svRet EXCEPT ![c] = ret]
    /\ svPc' = [svPc EXCEPT ![c] = "idle"]
    /\ svClient' = client
    /\ svRunning' = running
    /\ svLock' = 0
    /\ svLockQ' = lq

\* A method suspends at `pc` with the lock held.
SvcSuspend(c, pc, lq) ==
    /\ svPc' = [svPc EXCEPT ![c] = pc]
    /\ svLock' = c
    /\ svLockQ' = lq
    /\ svRet' = [svRet EXCEPT ![c] = "pending"]
    /\ UNCHANGED <<svClient, svRunning>>

\* _cleanup, lines 252-263, on a client that did not connect or whose
\* disconnect succeeds.
_cleanup(client) == IF client = "on" THEN "off" ELSE client

\* initialize under the lock, lines 73-130; ok: the arguments have the
\* right types.
InitializeCS(c, ok, lq) ==
    IF svClient # "none" THEN SvcReturn(c, "True", svClient, svRunning, lq)
    ELSE IF ok THEN SvcReturn(c, "True", "off", svRunning, lq)
    ELSE SvcReturn(c, "False", _cleanup(svClient), FALSE, lq)

\* start under the lock, lines 140-153, up to `await self.client.connect()`.
StartCS(c, lq) ==
    IF svRunning THEN SvcReturn(c, "True", svClient, svRunning, lq)
    ELSE IF svClient = "none" THEN SvcReturn(c, "False", svClient, svRunning, lq)
    ELSE IF svClient = "on" THEN SvcReturn(c, "True", svClient, TRUE, lq)
    ELSE SvcSuspend(c, "connect", lq)

\* stop under the lock, lines 228-233, up to `await self.client.disconnect()`.
StopCS(c, lq) ==
    IF ~svRunning THEN SvcReturn(c, "True", svClient, svRunning, lq)
    ELSE IF svClient = "on" THEN SvcSuspend(c, "disconnect", lq)
    ELSE SvcReturn(c, "True", svClient, FALSE, lq)

\* restart under the lock, lines 246-247: it awaits self.stop(), whose
\* `async with self._lock` (line 227) finds the lock taken, by the caller
\* itself, and queues the caller for it.
RestartCS(c, lq) == SvcSuspend(c, "stop_lock", Append(lq, c))

MethodCS(c, op, ok, lq) ==
    CASE op = "initialize" -> InitializeCS(c, ok, lq)
      [] op = "start" -> StartCS(c, lq)
      [] op = "stop" -> StopCS(c, lq)
      [] op = "restart" -> RestartCS(c, lq)

\* A method is called: `async with self._lock` at its first line.
SvcCall(c, op, ok) ==
    /\ svPc[c] = "idle"
    /\ svOp' = [svOp EXCEPT ![c] = op]
    /\ IF SvcLockFree
       THEN MethodCS(c, op, ok, svLockQ)
       ELSE /\ svPc' = [svPc EXCEPT ![c] = "lock"]
            /\ svLockQ' = Append(svLockQ, c)
            /\ svRet' = [svRet EXCEPT ![c] = "pending"]
            /\ UNCHANGED <<svLock, svClient, svRunning>>

\* ---- initialize(...), start(), stop(), restart() are called.
initialize(c, ok) == UNCHANGED outsideService /\ SvcCall(c, "initialize", ok)

start(c) == UNCHANGED outsideService /\ SvcCall(c, "start", TRUE)

stop(c) == UNCHANGED outsideService /\ SvcCall(c, "stop", TRUE)

restart(c) == UNCHANGED outsideService /\ SvcCall(c, "restart", TRUE)

\* ---- start resumes after connect and the awaits that follow it, lines
\* ---- 153-177: the client is started; or it is connected but authorization
\* ---- needs a phone nobody gave; or an exception is caught and _cleanup run.
ConnectReturn(c, how) ==
    /\ UNCHANGED outsideService
    /\ svPc[c] = "connect"
    /\ CASE how = "ok" -> SvcReturn(c, "True", "on", TRUE, svLockQ)
         [] how = "no_phone" -> SvcReturn(c, "False", "on", svRunning, svLockQ)
         [] how = "raise" -> SvcReturn(c, "False", _cleanup(svClient), FALSE, svLockQ)
    /\ UNCHANGED svOp

\* ---- stop resumes after disconnect, lines 233-242: done; or disconnect
\* ---- raised and _cleanup disconnects; or _cleanup's disconnect raises too
\* ---- and _is_running stays set.
DisconnectReturn(c, how) ==
    /\ UNCHANGED outsideService
    /\ svPc[c] = "disconnect"
    /\ CASE how = "ok" -> SvcReturn(c, "True", "off", FALSE, svLockQ)
         [] how = "raise" -> SvcReturn(c, "False", _cleanup(svClient), FALSE, svLockQ)
         [] how = "raise_twice" -> SvcReturn(c, "False", svClient, svRunning, svLockQ)
    /\ UNCHANGED svOp

\* ---- the lock is free: the caller queued first gets it and runs its
\* ---- method up to the next suspension.
SvcLockGrant(ok) ==
    /\ UNCHANGED outsideService
    /\ svLock = 0
    /\ svLockQ # <<>>
    /\ svPc[Head(svLockQ)] = "lock"
    /\ MethodCS(Head(svLockQ), svOp[Head(svLockQ)], ok, Tail(svLockQ))
    /\ UNCHANGED svOp

\* A caller at "stop_lock" waits for the lock its own restart holds: no step
\* gives it the lock, so the rest of restart (lines 248-250) has no action.
NextService ==
    \/ \E c \in SvcCallers, ok \in BOOLEAN : initialize(c, ok)
    \/ \E c \in SvcCallers : start(c)
    \/ \E c \in SvcCallers : stop(c)
    \/ \E c \in SvcCallers : restart(c)
    \/ \E c \in SvcCallers, o \in {"ok", "no_phone", "raise"} : ConnectReturn(c, o)
    \/ \E c \in SvcCallers, o \in {"ok", "raise", "raise_twice"} : DisconnectReturn(c, o)
    \/ \E ok \in BOOLEAN : SvcLockGrant(ok)

SpecService == Init /\ [][NextService]_vars

\* The event loop runs every task that is ready, and the collaborator's
\* connect and disconnect come back.
FairSpecService ==
    /\ Init
    /\ [][NextService]_vars
    /\ \A c \in SvcCallers :
          /\ WF_vars(\E o \in {"ok", "no_phone", "raise"} : ConnectReturn(c, o))
          /\ WF_vars(\E o \in {"ok", "raise", "raise_twice"} : DisconnectReturn(c, o))
    /\ WF_vars(\E ok \in BOOLEAN : SvcLockGrant(ok))

\* C39: restart() called on an initialized service eventually returns (True
\* or False).  (The claim as stated; restart awaits stop() while it holds the
\* lock that stop() asks for.)
C39_RestartReturns ==
    \A c \in SvcCallers :
        (svOp[c] = "restart" /\ svPc[c] # "idle" /\ svClient # "none")
            ~> (svPc[c] = "idle" /\ svRet[c] \in {"True", "False"})

\* A restart that holds the lock is queued for it, and stays so.
RestartWaitsForItself ==
    \A c \in SvcCallers :
        (svOp[c] = "restart" /\ svLock = c) => (svPc[c] = "stop_lock" /\ c \in RangeOf(svLockQ))

SpecStorage == Init /\ [][NextStorage]_vars


\* The event loop runs every task that is ready, and a finite timeout expires.
FairSpecStorage ==
    /\ Init
    /\ [][NextStorage]_vars
    /\ \A w \in Waiters : /\ WF_vars(Resume(w))
                           /\ WF_vars(WaitTimeout(w))
                           /\ WF_vars(GroupTimeout(w))
    /\ WF_vars(LockGrant)

\* C30: every wait_for_message call with a finite timeout eventually returns
\* (a message, a group batch or None), also when the event it picks up has a
\* grouped_id, and no add_message call waits for the lock for ever.  (The
\* claim as stated; a caller that picks up a grouped event with a positive
\* group_timeout asks at line 77 for the lock it holds since line 106.)
C30_WaitReturnsAddNotBlocked ==
    /\ \A w \in Waiters : (wpc[w] # "idle" /\ wfinite[w]) ~> (wpc[w] = "idle")
    /\ \A e \in 1..MaxEvents :
          (AddTask(e) \in RangeOf(lockQ)) ~> (AddTask(e) \notin RangeOf(lockQ))

\* The wait of line 73 never suspends: the event is set at every pickup.
GroupWaitUnreachable == \A w \in Waiters : wpc[w] # "grp_wait"

\* _lock is held across a suspension only by a caller that is itself queued
\* for it at line 77, so a queued task is never granted the lock.
LockNeverGranted == lockQ # <<>> => (lock \in Waiters /\ wpc[lock] = "grp_lock")

GroupEvents(g) == {e \in DOMAIN events : events[e] = g}

\* C2: when three events sharing grouped_id G have been added, the
\* wait_for_message call that picked up the first of them (it is collecting
\* the group of G) returns one batch containing all three events.  (The claim
\* as stated; the call never returns.)
C2_GroupBatchComplete ==
    \A w \in Waiters : \A g \in GroupIds \ {0} :
        (/\ wgroup[w] # <<>>
         /\ events[wgroup[w][1]] = g
         /\ Cardinality(GroupEvents(g)) = 3)
        ~> (/\ wpc[w] = "idle"
            /\ wresult[w].kind = "batch"
            /\ RangeOf(wresult[w].items) = GroupEvents(g))

\* C3: wait_for_message returns an empty result only if no event was
\* available during the wait: a call that returned None saw the buffer empty
\* at some moment between its start and its return.  (The claim as stated; an
\* event added while no waiter was counted never sets the event.)
C3_EmptyOnlyIfNoEvent ==
    \A w \in Waiters :
        (wpc[w] = "idle" /\ wresult[w].kind = "none") => sawEmpty[w]


(***************************************************************************)
(* PART 7.  MessageConverter and ContentAnalyzer (listener/parser), and    *)
(* the way of a converted message to save_message: process_message puts    *)
(* it on _processed_queue, the db_writer task takes it from there.         *)
(***************************************************************************)

\* How many events one behaviour hands to process_message.
MaxConv == 2

AttrKinds == {"video", "audio", "animated"}

Mimes == {"image/png", "image/gif", "application/pdf"}

\* startswith('image/')
IsImageMime(mime) == mime \in {"image/png", "image/gif"}

\* What an event (telethon Message) shows to the converters:
\*   text       message.message ("" when the event has no text)
\*   textRaises TextMessage(...) raises (an entity url that is not http(s))
\*   media      "none", "photo" (MessageMediaPhoto), "document"
\*              (MessageMediaDocument), "webpage" (any other media)
\*   attrs      the kinds of document.attributes
\*   mime       document.mime_type
\*   mediaFails the converter the media is handed to raises or returns None
\*   sender     "user" (a User entity), "unresolved" (no entity, sender_id
\*              known), "none" (no sender)
\*   chat       "channel" (message.chat is a Channel or Chat), "unresolved"
Shape(text, textRaises, media, attrs, mime, mediaFails) ==
    [text |-> text, textRaises |-> textRaises, media |-> media, attrs |-> attrs,
     mime |-> mime, mediaFails |-> mediaFails]

Meta(sender, uid, fname, chat, title) ==
    [sender |-> sender, uid |-> uid, first_name |-> fname, chat |-> chat, title |-> title]

Event(sh, me) ==
    [text |-> sh.text, textRaises |-> sh.textRaises, media |-> sh.media, attrs |-> sh.attrs,
     mime |-> sh.mime, mediaFails |-> sh.mediaFails,
     sender |-> me.sender, uid |-> me.uid, first_name |-> me.first_name,
     chat |-> me.chat, title |-> me.title]

Shapes ==
    { Shape(t, tr, "none", {}, "none", FALSE) : t \in {"", "hello"}, tr \in BOOLEAN }
    \cup { Shape(t, tr, md, {}, "none", mf) :
             t \in {"", "hello"}, tr \in BOOLEAN, md \in {"photo", "webpage"}, mf \in BOOLEAN }
    \cup { Shape("", FALSE, "document", as, mi, mf) :
             as \in SUBSET AttrKinds, mi \in Mimes, mf \in BOOLEAN }

Metas ==
    { Meta("user", 5, "Ann", "channel", "Chan"),
      Meta("user", 5, "", "channel", "Chan"),
      Meta("unresolved", 5, NULL, "channel", "Chan"),
      Meta("none", NULLI, NULL, "unresolved", NULL),
      Meta("user", 5, "Bob", "channel", "Chan2") }

DefaultShape == Shape("hello", FALSE, "none", {}, "none", FALSE)

DefaultMeta == Meta("user", 5, "Ann", "channel", "Chan")

ConvEvents ==
    { Event(sh, DefaultMeta) : sh \in Shapes } \cup { Event(DefaultShape, me) : me \in Metas }

\* A content item as the converters build it.
Item(kind, text, file_id, caption, animated) ==
    [kind |-> kind, text |-> text, file_id |-> file_id, caption |-> caption, is_animated |-> animated]

Caption(e) == IF e.text = "" THEN NULL ELSE e.text

\* PhotoConverter._is_animated_document
_is_animated_document(e) ==
    \/ e.attrs \cap {"animated", "video"} # {}
    \/ e.mime \in {"image/gif", "video/mp4"}

\* PhotoConverter.convert -> _convert_message: a photo becomes an item with
\* is_animated False (a Photo has no attributes); a document becomes an item
\* only if _is_animated_document, and then with is_animated True.  Every
\* exception is caught and answered with None (<<>> here).
PhotoConvert(e) ==
    IF e.mediaFails THEN <<>>
    ELSE IF e.media = "photo" THEN <<Item("photo", NULL, "p1", Caption(e), FALSE)>>
    ELSE IF e.media = "document" /\ _is_animated_document(e)
         THEN <<Item("photo", NULL, "p1", Caption(e), TRUE)>>
    ELSE <<>>

VideoConvert(e) == IF e.mediaFails THEN <<>> ELSE <<Item("video", NULL, "v1", Caption(e), FALSE)>>

AudioConvert(e) == IF e.mediaFails THEN <<>> ELSE <<Item("audio", NULL, "a1", NULL, FALSE)>>

\* photo_msg.is_animated = True
SetAnimated(items) == [i \in DOMAIN items |-> [items[i] EXCEPT !.is_animated = TRUE]]

\* ContentAnalyzer._process_document: the if / elif chain over the attributes.
_process_document(e) ==
    IF "video" \in e.attrs THEN VideoConvert(e)
    ELSE IF "audio" \in e.attrs THEN AudioConvert(e)
    ELSE IF "animated" \in e.attrs THEN SetAnimated(PhotoConvert(e))
    ELSE IF IsImageMime(e.mime) THEN PhotoConvert(e)
    ELSE <<>>

\* ContentAnalyzer._process_media
_process_media(e) ==
    IF e.media = "none" THEN <<>>
    ELSE IF e.media = "photo" THEN PhotoConvert(e)
    ELSE IF e.media = "document" THEN _process_document(e)
    ELSE <<>>

\* TextConverter.convert, called when message.message is not empty: it has
\* no handler of its own, so an exception of TextMessage(...) leaves it.
TextConvert(e) ==
    IF e.textRaises THEN [raised |-> TRUE, items |-> <<>>]
    ELSE [raised |-> FALSE, items |-> <<Item("text", e.text, NULL, NULL, FALSE)>>]

\* ContentAnalyzer.extract_contents: the text item, then the media items.
\* The call of the text converter is outside every try block: when it
\* raises, extract_contents raises, before the media is looked at.
extract_contents(e) ==
    LET t == IF e.text # "" THEN TextConvert(e) ELSE [raised |-> FALSE, items |-> <<>>]
    IN IF t.raised
       THEN [raised |-> TRUE, contents |-> <<>>]
       ELSE [raised |-> FALSE, contents |-> t.items \o _process_media(e)]

\* MessageConverter._get_user_info
_get_user_info(e) ==
    IF e.sender = "user" THEN [user_id |-> e.uid, first_name |-> e.first_name]
    ELSE IF e.sender = "unresolved" THEN [user_id |-> e.uid, first_name |-> ""]
    ELSE [user_id |-> NULLI, first_name |-> ""]

\* MessageConverter._get_chat_info
_get_chat_info(e) ==
    IF e.chat = "channel" THEN [title |-> e.title] ELSE [title |-> NULL]

\* A convert that hands on whatever extract_contents gave.
convertAlways(e, mid) ==
    [ok |-> TRUE,
     msg |-> Msg(mid, _get_user_info(e).user_id, _get_user_info(e).first_name,
                 _get_chat_info(e).title, e.text, NULLI, 10, extract_contents(e).contents)]

\* MessageConverter.convert of the event with message id `mid`: None when
\* extract_contents raised or gave no item.
convert(e, mid) ==
    LET x == extract_contents(e)
    IN IF x.raised \/ x.contents = <<>>
       THEN [ok |-> FALSE]
       ELSE [ok |-> TRUE,
             msg |-> Msg(mid, _get_user_info(e).user_id, _get_user_info(e).first_name,
                         _get_chat_info(e).title, e.text, NULLI, 10, x.contents)]

\* ---- MessageLoader.process_message(event.message): convert, and put the
\* ---- result on _processed_queue unless it is None.
process_message(e) ==
    /\ UNCHANGED outsideConvert
    /\ Len(cvLog) < MaxConv
    /\ LET mid == Len(cvLog) + 1
           c == convert(e, mid)
       IN /\ cvLog' = Append(cvLog, [event |-> e, extracted |-> extract_contents(e), converted |-> c])
          /\ cvQueue' = IF c.ok THEN Append(cvQueue, c.msg) ELSE cvQueue
    /\ UNCHANGED dbVars

\* ---- _database_writer_task: get_processed_message gives the head of the
\* ---- queue, and save_message is called with it; query `fail` raises.
WriteProcessed(fail) ==
    /\ UNCHANGED outsideConvert
    /\ cvQueue # <<>>
    /\ LET m == Head(cvQueue)
           r == save_message(db, m, fail)
       IN /\ fail <= r.q
          /\ db' = r.db
          /\ saveLog' = Append(saveLog, [msg |-> m, ret |-> r.ok, clean |-> fail = 0,
                                         queries |-> r.log, fail |-> fail])
    /\ cvQueue' = Tail(cvQueue)
    /\ UNCHANGED <<loadLog, cvLog>>

\* The queries of save_message that raise in this part: none, the chat
\* upsert, the user upsert, the metadata upsert.
ConvFailures == 0..3

NextConvert ==
    \/ \E e \in ConvEvents : process_message(e)
    \/ \E fail \in ConvFailures : WriteProcessed(fail)

SpecConvert == Init /\ [][NextConvert]_vars

\* C23: an event whose extraction yields no content item is never handed on:
\* convert returns None for it, process_message does not put it on the queue,
\* and save_message is not called for it; every message on the queue or given
\* to save_message has at least one content item and is the result of a
\* conversion that succeeded.
C23_EmptyNeverHandedOn ==
    /\ \A i \in DOMAIN cvLog :
          cvLog[i].extracted.contents = <<>> => ~cvLog[i].converted.ok
    /\ \A i \in DOMAIN cvQueue : Len(cvQueue[i].contents) >= 1
    /\ \A j \in DOMAIN saveLog : Len(saveLog[j].msg.contents) >= 1
    /\ Len(cvQueue) + Len(saveLog) = Cardinality({i \in DOMAIN cvLog : cvLog[i].converted.ok})

\* C23 witness: an event with neither text nor recognised media was processed,
\* another event was converted and saved, and nothing is left on the queue.
C23_Witness ==
    /\ Len(cvLog) = 2
    /\ \E i \in DOMAIN cvLog :
          /\ cvLog[i].event.text = "" /\ cvLog[i].event.media \in {"none", "webpage"}
          /\ cvLog[i].extracted = [raised |-> FALSE, contents |-> <<>>]
    /\ Len(saveLog) = 1
    /\ cvQueue = <<>>

ItemsOf(items, kind) == SelectSeq(items, LAMBDA c : c.kind = kind)

\* C24: a failure in one converter only removes that converter's item.  If
\* the text converter raises for an event that also carries convertible
\* media, extraction still returns the media item; if the media converter
\* fails, the text item is still returned.  (The claim as stated; the text
\* converter is called outside every try block of extract_contents.)
C24_FailureRemovesOnlyOwnItem ==
    \A i \in DOMAIN cvLog :
        LET e == cvLog[i].event
            x == cvLog[i].extracted
        IN /\ (e.text # "" /\ e.textRaises /\ _process_media(e) # <<>>)
                 => (~x.raised /\ x.contents = _process_media(e))
           /\ (e.text # "" /\ ~e.textRaises /\ e.media # "none" /\ e.mediaFails)
                 => (~x.raised /\ x.contents = TextConvert(e).items)

\* C25: document-shaped events are classified in priority order: a document
\* with a video attribute yields a video item; otherwise one with an audio
\* attribute yields an audio item; otherwise one with an animated attribute
\* or an image mime type yields exactly one image item with is_animated true;
\* any other document yields no item.  (The claim as stated, for documents
\* whose converter does not fail; PhotoConverter makes an item of a document
\* only if _is_animated_document.)
C25_DocumentPriority ==
    \A i \in DOMAIN cvLog :
        LET e == cvLog[i].event
            c == cvLog[i].extracted.contents
        IN (e.media = "document" /\ e.text = "" /\ ~e.mediaFails)
           => IF "video" \in e.attrs THEN Len(c) = 1 /\ c[1].kind = "video"
              ELSE IF "audio" \in e.attrs THEN Len(c) = 1 /\ c[1].kind = "audio"
              ELSE IF "animated" \in e.attrs \/ IsImageMime(e.mime)
                   THEN Len(c) = 1 /\ c[1].kind = "photo" /\ c[1].is_animated
              ELSE c = <<>>

\* A value is stored / carried: neither NULL nor the empty string.
Present(v) == v # NULL /\ v # ""

\* C27: chat and user upserts never blank a stored value.  Over convert-
\* then-save of events for the same chat_id or user_id, a stored title or
\* first name is replaced only by a value present in the incoming event, and
\* is kept when the incoming event carries none (the sender entity could not
\* be resolved).  (The claim as stated; the converter hands on '' for an
\* absent name, and COALESCE keeps the stored value only for NULL.)
C27_NeverBlanked ==
    [][ /\ \A u \in DOMAIN db.users :
            Present(db.users[u].first_name)
            => /\ u \in DOMAIN db'.users
               /\ \/ db'.users[u].first_name = db.users[u].first_name
                  \/ /\ cvQueue # <<>>
                     /\ cvLog[Head(cvQueue).message_id].event.sender = "user"
                     /\ Present(cvLog[Head(cvQueue).message_id].event.first_name)
                     /\ db'.users[u].first_name = cvLog[Head(cvQueue).message_id].event.first_name
        /\ \A ch \in DOMAIN db.chats :
            Present(db.chats[ch].title)
            => /\ ch \in DOMAIN db'.chats
               /\ \/ db'.chats[ch].title = db.chats[ch].title
                  \/ /\ cvQueue # <<>>
                     /\ cvLog[Head(cvQueue).message_id].event.chat = "channel"
                     /\ Present(cvLog[Head(cvQueue).message_id].event.title)
                     /\ db'.chats[ch].title = cvLog[Head(cvQueue).message_id].event.title
      ]_vars


====
